---------------------------- MODULE Spec2Model ----------------------------
(***************************************************************************)
(* Model of the amplicon pipeline scripts Amplicaon_processing.py (script  *)
(* 1) and Amplicaon_processing2.py (script 2).                             *)
(*                                                                         *)
(* Spec        the run of main(): the stages, the external commands they   *)
(*             issue, the prompts, the files of the output directory, the  *)
(*             working directory and the top-level handler.                *)
(* FilterSpec  the cell filter of filter_low_abundance_otus on an OTU      *)
(*             table, one evaluation of the lambda per step.               *)
(*                                                                         *)
(* External tools are collaborators: a command either exits 0 and has      *)
(* written its output files, or exits non-zero.                            *)
(***************************************************************************)
EXTENDS Integers, Sequences, FiniteSets, TLC

VARIABLES
    script,           \* 1: Amplicaon_processing.py, 2: Amplicaon_processing2.py
    pc,               \* position of main()
    idx,              \* index of the metadata row the current loop is at
    metadata,         \* the rows of the metadata table
    tools,            \* the tool binding built by check_tool
    outdir0,          \* the artifacts the output directory held when the run began
    metadata_file,    \* the rows the metadata file holds
    files,            \* the artifacts that exist in the output directory
    pool,             \* contents of all_samples_derep.fasta
    cmds,             \* the external commands issued, in order
    warnings,         \* the logging.warning calls, in order
    started,          \* the stages entered, in order
    config,           \* the answers accepted at the prompts
    cwd,              \* the process's current working directory
    orig_dir,         \* orig_dir of the extension being executed
    exits,            \* how each extension function was left
    handled,          \* messages logged by the top-level handler
    otutab,           \* FilterSpec: the table otutab.txt holds
    otu_df,           \* FilterSpec: the table read from otutab.txt
    otu_df_filtered,  \* FilterSpec: the table being filtered
    filter_min_count, \* FilterSpec: threshold
    filter_min_freq,  \* FilterSpec: threshold, a fraction <<num, den>>
    applied,          \* FilterSpec: cells the lambda has been applied to
    totals,           \* FilterSpec: the denominator each applied cell was divided by
    zerodiv,          \* FilterSpec: a division by a zero total was evaluated
    pass,             \* FilterSpec: 0 idle, 1 first filtering, 2 filtering again
    first_result,     \* FilterSpec: the table the first filtering produced
    ppc,              \* PartitionSpec: step of the filter function after the table is filtered
    otu_ids,          \* PartitionSpec: the ids read back from otutab.filter.txt
    all_otus,         \* PartitionSpec: the record ids read from otus.fasta
    matched,          \* PartitionSpec: how many of otu_ids the matching loop has done
    passed_ids,       \* PartitionSpec: passed_ids
    failed_ids,       \* PartitionSpec: failed_ids
    passed_out,       \* PartitionSpec: the record ids written to otus.filter.fasta
    failed_out,       \* PartitionSpec: the lines written to list.filter
    entered,          \* the last text read by input(): where, what, and what came of it
    printed           \* PromptSpec: the messages a prompt loop has printed

pipeVars == <<script, outdir0, metadata_file, pc, idx, metadata, tools, files, pool, cmds, warnings,
              started, config, cwd, orig_dir, exits, handled>>
partVars == <<ppc, otu_ids, all_otus, matched, passed_ids, failed_ids, passed_out,
              failed_out>>
filterVars == <<otutab, otu_df, otu_df_filtered, filter_min_count, filter_min_freq,
                applied, totals, zerodiv, pass, first_result, partVars>>
promptVars == <<entered, printed>>
vars == <<pipeVars, filterVars, promptVars>>

(***************************************************************************)
(* Bounds and input sets                                                   *)
(***************************************************************************)
MaxRows == 2
MaxCount == 2

SampleIds == {"A", "B"}
\* the primer pair of each sample
PrimersOf == [id \in SampleIds |->
                 IF id = "A" THEN <<"ACGT", "TTGA">> ELSE <<"GGCC", "CATG">>]
\* the raw files that exist in input_dir
InputDir == {"fwd.fq", "rev.fq"}
ForwardNames == {"fwd.fq", "nofwd.fq"}
ReverseNames == {"rev.fq", "norev.fq"}
\* reference databases that exist on disk
Databases == {"ref.fa"}

\* the rows of a table: of the two raw files a row names, at most one is missing
Rows == {row \in {[sample_id |-> id, primers |-> PrimersOf[id],
                   forward_file |-> f, reverse_file |-> r] :
                      id \in SampleIds, f \in ForwardNames, r \in ReverseNames} :
            row.forward_file \in InputDir \/ row.reverse_file \in InputDir}

RECURSIVE SeqsUpTo(_, _)
SeqsUpTo(S, n) ==
    IF n = 0 THEN {<< >>}
    ELSE LET shorter == SeqsUpTo(S, n - 1)
         IN  shorter \cup {Append(s, x) : s \in {t \in shorter : Len(t) = n - 1}, x \in S}

\* metadata tables pd.read_csv can return: at least one row
MetadataTables == {m \in SeqsUpTo(Rows, MaxRows) : Len(m) >= 1}

\* the tables of the runs followed to their end: every reverse file exists, and
\* only sample A may lack its forward file
RunTables ==
    {m \in MetadataTables :
        \A k \in 1..Len(m) : /\ m[k].reverse_file \in InputDir
                              /\ (m[k].sample_id = "A" \/ m[k].forward_file \in InputDir)}

forward_primer(row) == row.primers[1]
reverse_primer(row) == row.primers[2]

\* artifacts left in the output directory by an earlier run
StaleDemux == {<<"1-demultiplex", "A", "R1.fastq">>, <<"1-demultiplex", "A", "R2.fastq">>}
\* all_samples_derep.fasta, and what an earlier run left in it
AllDerepFile == <<"4-dereplicate", "all_samples_derep", "fasta">>
StalePool == <<"Z">>
InitialOutputDirs == {{}, StaleDemux \cup {AllDerepFile}}
\* the files of relabel_and_cluster in 7-OTU
TempOtus == <<"7-OTU", "otus.temp", "fasta">>
Otus == <<"7-OTU", "otus", "fasta">>
Otutab == <<"7-OTU", "otutab", "txt">>
TempOtutab == <<"7-OTU", "otutab.temp", "txt">>
\* the output directories of a whole run: new, or holding the pool and the 7-OTU files
\* of an earlier run
RunOutputDirs == {{}, {AllDerepFile, TempOtus, Otus, Otutab}}

ToolNames == <<"cutadapt", "vsearch", "usearch", "seqkit", "csvtk">>

(***************************************************************************)
(* main(): the textual order of the stages                                 *)
(***************************************************************************)
PerSampleStages == {"demultiplex", "merge", "quality", "dereplicate"}

MainOrderSwapped ==
    IF script = 1
    THEN <<"demultiplex", "merge", "quality", "dereplicate", "chimera", "cluster",
           "otu_table", "classify">>
    ELSE <<"demultiplex", "merge", "quality", "dereplicate", "chimera", "cluster",
           "otu_table", "relabel_and_cluster", "plot_rarefaction_curve",
           "filter_low_abundance_otus", "classify">>

MainOrder ==
    IF script = 1
    THEN <<"demultiplex", "merge", "quality", "dereplicate", "cluster", "chimera",
           "otu_table", "classify">>
    ELSE <<"demultiplex", "merge", "quality", "dereplicate", "cluster", "chimera",
           "otu_table", "relabel_and_cluster", "plot_rarefaction_curve",
           "filter_low_abundance_otus", "classify">>

\* the order the specification lists the stages in
StageRank(s) ==
    CASE s = "demultiplex" -> 1
      [] s = "merge" -> 2
      [] s = "quality" -> 3
      [] s = "dereplicate" -> 4
      [] s = "cluster" -> 5
      [] s = "chimera" -> 6
      [] s = "otu_table" -> 7
      [] s = "relabel_and_cluster" -> 8
      [] s = "plot_rarefaction_curve" -> 9
      [] s = "filter_low_abundance_otus" -> 10
      [] s = "classify" -> 11

PositionOf(s) == CHOOSE k \in 1..Len(MainOrder) : MainOrder[k] = s

StageAfter(s) ==
    IF PositionOf(s) = Len(MainOrder) THEN "completed" ELSE MainOrder[PositionOf(s) + 1]

\* control reaches the stage after s: its first statement is at pc = its name
GoNext(s) ==
    /\ pc' = StageAfter(s)
    /\ started' = IF StageAfter(s) = "completed" THEN started
                  ELSE Append(started, StageAfter(s))
    /\ idx' = 1

(***************************************************************************)
(* run_command and the exceptions that reach the top level                 *)
(***************************************************************************)
ExitCodes == {0, 1}

\* every command started directly, none through run_command
CmdDirect(stage, row, tool, via, args, rc) ==
    [stage |-> stage, row |-> row, tool |-> tool, via |-> "subprocess.run", args |-> args,
     rc |-> rc]

Cmd(stage, row, tool, via, args, rc) ==
    [stage |-> stage, row |-> row, tool |-> tool, via |-> via, args |-> args, rc |-> rc]

\* the command with the files its command line names as input and as output
IO(c, reads, writes) ==
    [stage |-> c.stage, row |-> c.row, tool |-> c.tool, via |-> c.via, args |-> c.args,
     rc |-> c.rc, reads |-> reads, writes |-> writes]

\* a file of the input directory, and a file beside the output directory
Raw(name) == <<"input_dir", name>>
Outside(name) == <<"..", name>>

\* subprocess.run(..., check=True): CalledProcessError, re-raised by run_command
RunCommandRaisesNever(rc) == FALSE

RunCommandRaises(rc) == rc # 0

\* the exception ends the program at once, as sys.exit does
RaiseExits ==
    /\ pc' = "exited"
    /\ UNCHANGED <<idx, started>>

\* an exception leaves main(): nothing but the handler runs after it
Raise ==
    /\ pc' = "raised"
    /\ UNCHANGED <<idx, started>>

\* sys.exit(): SystemExit is no Exception, the handler does not catch it
SysExit ==
    /\ pc' = "exited"
    /\ UNCHANGED <<idx, started>>

\* value.lower(), on the inputs of the model
Lower(value) ==
    CASE value = "EXIT" -> "exit"
      [] value = "EXIST" -> "exist"
      [] value = "YES" -> "yes"
      [] value = "No" -> "no"
      [] OTHER -> value

\* the text that ends the program, in script s
SentinelOf(s) == IF s = 1 THEN "exist" ELSE "exit"

Sentinel == SentinelOf(script)

(***************************************************************************)
(* Initial state                                                           *)
(***************************************************************************)
NoTable == [o \in {} |-> 0]

NoInput == [site |-> "", text |-> "", result |-> ""]

\* what a prompt loop in progress last read; nothing once the loop has returned
Read(site, text, result) ==
    IF result = "return" THEN NoInput
    ELSE [site |-> site, text |-> text, result |-> result]

PromptIdle ==
    /\ entered = NoInput
    /\ printed = << >>

PartitionIdle ==
    /\ ppc = "idle"
    /\ otu_ids = << >>
    /\ all_otus = {}
    /\ matched = 0
    /\ passed_ids = {}
    /\ failed_ids = {}
    /\ passed_out = {}
    /\ failed_out = {}

FilterIdle ==
    /\ PartitionIdle
    /\ otutab = NoTable
    /\ otu_df = NoTable
    /\ otu_df_filtered = NoTable
    /\ filter_min_count = 1
    /\ filter_min_freq = <<0, 1>>
    /\ applied = {}
    /\ totals = NoTable
    /\ zerodiv = FALSE
    /\ pass = 0
    /\ first_result = NoTable

\* the state main() starts in, the output directory holding one of dirs and the
\* metadata file one of tables, or nothing
Start(dirs, tables) ==
    /\ script \in {1, 2}
    /\ pc = "check_inputs"
    /\ idx = 1
    /\ metadata = << >>
    /\ tools = [t \in {} |-> ""]
    /\ outdir0 \in dirs
    /\ metadata_file \in tables \cup {<< >>}
    /\ files = outdir0
    /\ pool = IF AllDerepFile \in outdir0 THEN StalePool ELSE << >>
    /\ cmds = << >>
    /\ warnings = << >>
    /\ started = << >>
    /\ config = [c \in {} |-> ""]
    /\ cwd = "launch"
    /\ orig_dir = "launch"
    /\ exits = << >>
    /\ handled = << >>
    /\ FilterIdle
    /\ PromptIdle

\* a run into a fresh output directory
Init == Start(RunOutputDirs, RunTables)

\* a run into an output directory that may hold the artifacts of an earlier run
SampleInit == Start(InitialOutputDirs, MetadataTables)

(***************************************************************************)
(* main(): arguments, tools, metadata                                      *)
(***************************************************************************)
\* a path check_tool returns: an executable file it has verified (which directory
\* it lies in is not modelled)
Verified(name) == <<"verified", name>>

\* input_dir and metadata_file must exist, else FileNotFoundError
CheckInputs ==
    /\ pc = "check_inputs"
    /\ \E exists \in BOOLEAN :
          IF exists THEN pc' = "check_tools" ELSE pc' = "raised"
    /\ UNCHANGED <<script, outdir0, metadata_file, idx, metadata, tools, files, pool, cmds, warnings, started,
                   config, cwd, orig_dir, exits, handled, filterVars, promptVars>>

\* the tool check_tool is called for next
NextTool == ToolNames[Cardinality(DOMAIN tools) + 1]

\* tools[name] = check_tool(name) has returned
Bind(name) ==
    /\ tools' = [t \in DOMAIN tools \cup {name} |-> IF t = name THEN Verified(name) ELSE tools[t]]
    /\ pc' = IF Cardinality(DOMAIN tools) + 1 = Len(ToolNames) THEN "load_metadata"
             ELSE "check_tools"

\* check_tool for the next tool of the dictionary: shutil.which finds it, or the
\* loop that asks for its directory is entered
CheckTool ==
    /\ pc = "check_tools"
    /\ \E which \in BOOLEAN :
          IF which THEN Bind(NextTool)
          ELSE pc' = "check_tool_input" /\ UNCHANGED tools
    /\ UNCHANGED <<script, outdir0, metadata_file, idx, metadata, files, pool, cmds, warnings, started,
                   config, cwd, orig_dir, exits, handled, filterVars, promptVars>>

\* one round of the loop of check_tool: the sentinel ends the program, a directory
\* that holds the executable is accepted, any other is asked again
CheckToolInput ==
    /\ pc = "check_tool_input"
    /\ \E dir_input \in {"/opt/bin", "/nowhere", "exit", "exist"} :
          LET r == IF Lower(dir_input) = Sentinel THEN "exit"
                   ELSE IF dir_input = "/opt/bin" THEN "return"
                   ELSE "retry"
          IN  /\ entered' = Read(pc, dir_input, r)
              /\ IF r = "exit" THEN pc' = "exited" /\ UNCHANGED tools
                 ELSE IF r = "return" THEN Bind(NextTool)
                 ELSE UNCHANGED <<tools, pc>>
    /\ UNCHANGED <<script, outdir0, metadata_file, idx, metadata, files, pool, cmds, warnings, started,
                   config, cwd, orig_dir, exits, handled, filterVars, printed>>

\* pd.read_csv and the assignment of the six column names: the rows of the file, or
\* an exception when the file holds none
LoadMetadata ==
    /\ pc = "load_metadata"
    /\ IF metadata_file # << >>
       THEN /\ metadata' = metadata_file
            /\ pc' = MainOrder[1]
            /\ started' = <<MainOrder[1]>>
       ELSE /\ pc' = "raised"
            /\ UNCHANGED <<metadata, started>>
    /\ UNCHANGED <<script, outdir0, metadata_file, idx, tools, files, pool, cmds, warnings,
                   config, cwd, orig_dir, exits, handled, filterVars, promptVars>>

(***************************************************************************)
(* The per-sample loops                                                    *)
(***************************************************************************)
\* `continue` after the warning: the loop goes on with the next row
AfterSkipBreak(i) == Len(metadata) + 1

AfterSkip(i) == i + 1

\* the loop of stage s moves on to row j, or has ended
LoopTo(s, j) ==
    IF j > Len(metadata)
    THEN GoNext(s)
    ELSE idx' = j /\ UNCHANGED <<pc, started>>

Warn(stage, i) == warnings' = Append(warnings, [stage |-> stage, row |-> i])

(***************************************************************************)
(* Step 1: demultiplex                                                     *)
(***************************************************************************)
RawMissingBoth(row) ==
    row.forward_file \notin InputDir /\ row.reverse_file \notin InputDir

\* not os.path.exists(forward_file) or not os.path.exists(reverse_file)
RawMissing(row) ==
    row.forward_file \notin InputDir \/ row.reverse_file \notin InputDir

\* the cutadapt command of the row
DemuxOut(id) == {<<"1-demultiplex", id, "R1.fastq">>, <<"1-demultiplex", id, "R2.fastq">>}

DemuxCmd(i, rc) ==
    IO(Cmd("demultiplex", i, tools["cutadapt"], "run_command",
           <<forward_primer(metadata[i]), reverse_primer(metadata[i]),
             metadata[i].forward_file, metadata[i].reverse_file>>, rc),
       {Raw(metadata[i].forward_file), Raw(metadata[i].reverse_file)},
       DemuxOut(metadata[i].sample_id))

Demultiplex ==
    /\ pc = "demultiplex"
    /\ LET row == metadata[idx]
       IN  IF RawMissing(row)
           THEN /\ Warn("demultiplex", idx)
                /\ LoopTo("demultiplex", AfterSkip(idx))
                /\ UNCHANGED <<cmds, files>>
           ELSE \E rc \in ExitCodes :
                   /\ cmds' = Append(cmds, DemuxCmd(idx, rc))
                   /\ UNCHANGED warnings
                   /\ IF RunCommandRaises(rc)
                      THEN Raise /\ UNCHANGED files
                      ELSE /\ files' = files \cup DemuxOut(row.sample_id)
                           /\ LoopTo("demultiplex", idx + 1)
    /\ UNCHANGED <<script, outdir0, metadata_file, metadata, tools, pool, config, cwd, orig_dir, exits,
                   handled, filterVars, promptVars>>

(***************************************************************************)
(* Step 2: merge                                                           *)
(***************************************************************************)
\* not os.path.exists(demux_forward) or not os.path.exists(demux_reverse)
\* the demultiplexed files are taken to be there without a look
DemuxMissingNever(id) == FALSE

DemuxMissing(id) == ~(DemuxOut(id) \subseteq files)

MergeOut(id) == {<<"2-merge", id, "merged.fastq">>}

Merge ==
    /\ pc = "merge"
    /\ LET id == metadata[idx].sample_id
       IN  IF DemuxMissing(id)
           THEN /\ Warn("merge", idx)
                /\ LoopTo("merge", AfterSkip(idx))
                /\ UNCHANGED <<cmds, files>>
           ELSE \E rc \in ExitCodes :
                   /\ cmds' = Append(cmds, IO(Cmd("merge", idx, tools["vsearch"],
                                                  "run_command", <<id>>, rc),
                                              DemuxOut(id), MergeOut(id)))
                   /\ UNCHANGED warnings
                   /\ IF RunCommandRaises(rc)
                      THEN Raise /\ UNCHANGED files
                      ELSE /\ files' = files \cup MergeOut(id)
                           /\ LoopTo("merge", idx + 1)
    /\ UNCHANGED <<script, outdir0, metadata_file, metadata, tools, pool, config, cwd, orig_dir, exits,
                   handled, filterVars, promptVars>>

(***************************************************************************)
(* get_valid_input                                                         *)
(***************************************************************************)
\* the validator is asked first, the sentinel after it
GetValidInputValidatorFirst(value, valid) ==
    IF valid THEN "return"
    ELSE IF Lower(value) = Sentinel THEN "exit"
    ELSE "retry"

\* one round of the loop of get_valid_input: the sentinel is tested first
GetValidInput(value, valid) ==
    IF Lower(value) = Sentinel THEN "exit"
    ELSE IF valid THEN "return"
    ELSE "retry"

\* what the user may type where a choice between "1" and "2" is asked
ChoiceInputs == {"1", "2", "EXIT", "exist"}

\* x.isdigit() and int(x), on the inputs of the model
Digits == [s \in {"0", "100", "200", "250", "300", "400"} |->
              CASE s = "0" -> 0 [] s = "100" -> 100 [] s = "200" -> 200
                [] s = "250" -> 250 [] s = "300" -> 300 [] s = "400" -> 400]
IsDigit(s) == s \in DOMAIN Digits
ToInt(s) == Digits[s]

SetConfig(key, value) ==
    config' = [c \in DOMAIN config \cup {key} |-> IF c = key THEN value ELSE config[c]]

(***************************************************************************)
(* Step 3: quality filter                                                  *)
(***************************************************************************)
\* the prompt for the length type
QualityPrompt ==
    /\ pc = "quality"
    /\ \E value \in ChoiceInputs :
          LET r == GetValidInput(value, value \in {"1", "2"})
          IN  /\ entered' = Read(pc, value, r)
              /\ IF r = "exit" THEN pc' = "exited"
                 ELSE IF r = "retry" THEN pc' = pc
                 ELSE IF value = "1" THEN pc' = "quality_min"
                 ELSE pc' = "quality_lengths"
              /\ IF r = "return" THEN SetConfig("marker_type", value) ELSE UNCHANGED config
    /\ UNCHANGED <<script, outdir0, metadata_file, idx, metadata, tools, files, pool, cmds, warnings, started,
                   cwd, orig_dir, exits, handled, filterVars, printed>>

\* the prompts for min_length and max_length
QualityLengthRange ==
    /\ pc \in {"quality_min", "quality_max"}
    /\ \E value \in (IF pc = "quality_min" THEN {"0", "200"} ELSE {"100", "400"})
                     \cup {"abc", "exit", "exist"} :
          LET valid == IF pc = "quality_min"
                       THEN IsDigit(value) /\ ToInt(value) > 0
                       ELSE IsDigit(value) /\ ToInt(value) >= ToInt(config["min_length"])
              r == GetValidInput(value, valid)
          IN  /\ entered' = Read(pc, value, r)
              /\ IF r = "exit" THEN pc' = "exited"
                 ELSE IF r = "retry" THEN pc' = pc
                 ELSE IF pc = "quality_min" THEN pc' = "quality_max"
                 ELSE pc' = "quality_range"
              /\ IF r = "return"
                 THEN SetConfig(IF pc = "quality_min" THEN "min_length" ELSE "max_length", value)
                 ELSE UNCHANGED config
    /\ UNCHANGED <<script, outdir0, metadata_file, idx, metadata, tools, files, pool, cmds, warnings, started,
                   cwd, orig_dir, exits, handled, filterVars, printed>>

\* all(token.isdigit() and int(token) > 0 for token in tokens) and len(tokens) > 0,
\* on the tokens of s.split()
validate_lengths(tokens) ==
    /\ \A k \in 1..Len(tokens) : IsDigit(tokens[k]) /\ ToInt(tokens[k]) > 0
    /\ Len(tokens) > 0

\* the prompt for the fixed lengths; an input is given as its tokens
QualityLengths ==
    /\ pc = "quality_lengths"
    /\ \E tokens \in {<<"250", "300">>, << >>, <<"0">>, <<"abc">>,
                      <<"exit">>, <<"exist">>} :
          LET value == IF Len(tokens) = 1 THEN tokens[1] ELSE ""
              r == GetValidInput(value, validate_lengths(tokens))
          IN  /\ entered' = Read(pc, value, r)
              /\ IF r = "exit" THEN pc' = "exited"
                 ELSE IF r = "retry" THEN pc' = pc
                 ELSE pc' = "quality_fixed"
              /\ IF r = "return" THEN SetConfig("lengths", tokens) ELSE UNCHANGED config
    /\ UNCHANGED <<script, outdir0, metadata_file, idx, metadata, tools, files, pool, cmds, warnings, started,
                   cwd, orig_dir, exits, handled, filterVars, printed>>

\* not os.path.exists(input_file)
MergedFile(id) == <<"2-merge", id, "merged.fastq">>
MergedMissing(id) == MergedFile(id) \notin files

QualityOut(id) == {<<"3-quality", id, "filtered.fasta">>}
TempFile(id) == <<"3-quality", id, "temp.fastq">>

\* one sample of the length-range mode
QualityRange ==
    /\ pc = "quality_range"
    /\ LET id == metadata[idx].sample_id
       IN  IF MergedMissing(id)
           THEN /\ Warn("quality", idx)
                /\ LoopTo("quality", AfterSkip(idx))
                /\ UNCHANGED <<cmds, files>>
           ELSE \E rc \in ExitCodes :
                   /\ cmds' = Append(cmds,
                         IO(Cmd("quality", idx, tools["vsearch"], "run_command",
                                <<id, config["min_length"], config["max_length"]>>, rc),
                            {MergedFile(id)}, QualityOut(id)))
                   /\ UNCHANGED warnings
                   /\ IF RunCommandRaises(rc)
                      THEN Raise /\ UNCHANGED files
                      ELSE /\ files' = files \cup QualityOut(id)
                           /\ LoopTo("quality", idx + 1)
    /\ UNCHANGED <<script, outdir0, metadata_file, metadata, tools, pool, config, cwd, orig_dir, exits,
                   handled, filterVars, promptVars>>

\* subprocess.run(cmd, stdout=temp_f, check=True): CalledProcessError
SubprocessRaises(rc) == rc # 0

\* one sample of the fixed-length mode: seqkit once per length into the temporary
\* file, vsearch on the temporary file, os.remove
QualityFixed ==
    /\ pc = "quality_fixed"
    /\ LET id == metadata[idx].sample_id
           lengths == config["lengths"]
           n == Len(lengths)
       IN  IF MergedMissing(id)
           THEN /\ Warn("quality", idx)
                /\ LoopTo("quality", AfterSkip(idx))
                /\ UNCHANGED <<cmds, files>>
           ELSE \E rcs \in [1..(n + 1) -> ExitCodes] :
                   LET raising == {k \in 1..n : SubprocessRaises(rcs[k])}
                       last == IF raising = {} THEN n
                               ELSE CHOOSE k \in raising : \A j \in raising : k <= j
                       seqkit == [k \in 1..last |->
                                    IO(Cmd("quality", idx, tools["seqkit"], "subprocess.run",
                                           <<id, lengths[k]>>, rcs[k]),
                                       {MergedFile(id)}, {TempFile(id)})]
                       vsearch == IO(Cmd("quality", idx, tools["vsearch"], "run_command",
                                         <<id>>, rcs[n + 1]),
                                     {TempFile(id)}, QualityOut(id))
                   IN  /\ UNCHANGED warnings
                       /\ IF raising # {}
                          THEN /\ cmds' = cmds \o seqkit
                               /\ files' = files \cup {TempFile(id)}
                               /\ Raise
                          ELSE /\ cmds' = (cmds \o seqkit) \o <<vsearch>>
                               /\ IF RunCommandRaises(rcs[n + 1])
                                  THEN /\ files' = files \cup {TempFile(id)}
                                       /\ Raise
                                  ELSE /\ files' = (files \cup QualityOut(id)) \ {TempFile(id)}
                                       /\ LoopTo("quality", idx + 1)
    /\ UNCHANGED <<script, outdir0, metadata_file, metadata, tools, pool, config, cwd, orig_dir, exits,
                   handled, filterVars, promptVars>>

(***************************************************************************)
(* Step 4: dereplicate                                                     *)
(***************************************************************************)
FilteredMissing(id) == <<"3-quality", id, "filtered.fasta">> \notin files

DerepOut(id) == {<<"4-dereplicate", id, "derep.fasta">>}

\* the pool opened for appending: what it held is kept
OpenAppend(old) == old

\* open(all_derep_file, 'w'): what the file held is lost
OpenWrite(old) == << >>

\* one sample; open(all_derep_file, 'w') empties the pool before the first one
Dereplicate ==
    /\ pc = "dereplicate"
    /\ LET id == metadata[idx].sample_id
           opened == IF idx = 1 THEN OpenWrite(pool) ELSE pool
       IN  IF FilteredMissing(id)
           THEN /\ Warn("dereplicate", idx)
                /\ LoopTo("dereplicate", AfterSkip(idx))
                /\ pool' = opened
                /\ files' = files \cup {AllDerepFile}
                /\ UNCHANGED cmds
           ELSE \E rc \in ExitCodes :
                   /\ cmds' = Append(cmds, IO(Cmd("dereplicate", idx, tools["vsearch"],
                                                  "run_command", <<id>>, rc),
                                              QualityOut(id), DerepOut(id)))
                   /\ UNCHANGED warnings
                   /\ IF RunCommandRaises(rc)
                      THEN /\ Raise
                           /\ pool' = opened
                           /\ files' = files \cup {AllDerepFile}
                      ELSE /\ files' = files \cup DerepOut(id) \cup {AllDerepFile}
                           /\ pool' = Append(opened, id)
                           /\ LoopTo("dereplicate", idx + 1)
    /\ UNCHANGED <<script, outdir0, metadata_file, metadata, tools, config, cwd, orig_dir, exits,
                   handled, filterVars, promptVars>>

(***************************************************************************)
(* Steps 5 to 7: cluster, chimera detection, OTU table                     *)
(***************************************************************************)
\* a run-level command through run_command: exception, or output and next stage
RunLevel(stage, tool, args, rc, inp, out) ==
    /\ cmds' = Append(cmds, IO(Cmd(stage, 0, tool, "run_command", args, rc), inp, out))
    /\ IF RunCommandRaises(rc)
       THEN Raise /\ UNCHANGED files
       ELSE files' = files \cup out /\ GoNext(stage)

OtuFile == <<"5-cluster", "otus", "fasta">>
\* the chimera step writing its result over the clustering result
NochimOverOtus == <<"5-cluster", "otus", "fasta">>
NochimFile == <<"6-chimera", "otus_nochim", "fasta">>
ClusterOut == {OtuFile}
ChimeraOut == {NochimFile}
OtuTableOut == {<<"7-OTU", "otu_table", "txt">>}

\* the prompt for the clustering strategy, then the command of the chosen one
Cluster ==
    /\ pc = "cluster"
    /\ \E value \in ChoiceInputs, rc \in ExitCodes :
          LET r == GetValidInput(value, value \in {"1", "2"})
          IN  /\ entered' = Read(pc, value, r)
              /\ IF r = "exit" THEN SysExit /\ UNCHANGED <<cmds, files>>
                 ELSE IF r = "retry" THEN UNCHANGED <<pc, idx, started, cmds, files>>
                 ELSE RunLevel("cluster", tools["vsearch"],
                               <<IF value = "1" THEN "--cluster_smallmem" ELSE "--unoise3">>,
                               rc, {AllDerepFile}, ClusterOut)
    /\ UNCHANGED <<script, outdir0, metadata_file, metadata, tools, pool, warnings, config, cwd, orig_dir,
                   exits, handled, filterVars, printed>>

\* the prompt for the chimera method; de novo runs at once, the reference method
\* asks for the database first
Chimera ==
    /\ pc = "chimera"
    /\ \E value \in ChoiceInputs, rc \in ExitCodes :
          LET r == GetValidInput(value, value \in {"1", "2"})
          IN  /\ entered' = Read(pc, value, r)
              /\ IF r = "exit" THEN SysExit /\ UNCHANGED <<cmds, files>>
                 ELSE IF r = "retry" THEN UNCHANGED <<pc, idx, started, cmds, files>>
                 ELSE IF value = "1"
                 THEN RunLevel("chimera", tools["vsearch"], <<"--uchime_denovo">>, rc,
                               {OtuFile}, ChimeraOut)
                 ELSE pc' = "chimera_db" /\ UNCHANGED <<idx, started, cmds, files>>
    /\ UNCHANGED <<script, outdir0, metadata_file, metadata, tools, pool, warnings, config, cwd, orig_dir,
                   exits, handled, filterVars, printed>>

\* a validator that accepts every path
PathExistsAlways(path) == TRUE

\* validator=lambda x: os.path.exists(x)
PathExists(path) == path \in Databases

\* what the user may type where a database path is asked
PathInputs == {"ref.fa", "nodb.fa", "exit", "exist"}

\* the prompt for the reference database (validator os.path.exists), then uchime_ref
ChimeraDb ==
    /\ pc = "chimera_db"
    /\ \E value \in PathInputs, rc \in ExitCodes :
          LET r == GetValidInput(value, PathExists(value))
          IN  /\ entered' = Read(pc, value, r)
              /\ IF r = "exit" THEN SysExit /\ UNCHANGED <<cmds, files>>
                 ELSE IF r = "retry" THEN UNCHANGED <<pc, idx, started, cmds, files>>
                 ELSE RunLevel("chimera", tools["vsearch"], <<"--uchime_ref", value>>, rc,
                               {OtuFile}, ChimeraOut)
    /\ UNCHANGED <<script, outdir0, metadata_file, metadata, tools, pool, warnings, config, cwd, orig_dir,
                   exits, handled, filterVars, printed>>

OtuTable ==
    /\ pc = "otu_table"
    /\ \E rc \in ExitCodes :
          RunLevel("otu_table", tools["vsearch"], <<"--usearch_global">>, rc,
                   {AllDerepFile, NochimFile}, OtuTableOut)
    /\ UNCHANGED <<script, outdir0, metadata_file, metadata, tools, pool, warnings, config, cwd, orig_dir,
                   exits, handled, filterVars, promptVars>>

(***************************************************************************)
(* The extensions of script 2                                              *)
(***************************************************************************)
OtuDir == "7-OTU"

\* orig_dir = os.getcwd(); os.chdir(otu_dir)
EnterDir ==
    /\ orig_dir' = cwd
    /\ cwd' = OtuDir

Exit(fn, how, dir) == [fn |-> fn, how |-> how, cwd |-> dir, entry |-> orig_dir]

\* os.chdir(orig_dir), then the function returns
Return(fn, how) ==
    /\ cwd' = orig_dir
    /\ exits' = Append(exits, Exit(fn, how, orig_dir))
    /\ GoNext(fn)

\* an exception leaves the function: no statement of it runs any more
Propagate(fn) ==
    /\ exits' = Append(exits, Exit(fn, "exception", cwd))
    /\ Raise
    /\ UNCHANGED cwd

\* os.rename(src, dst) without the removal of src
RenameKeepsSource(fs, src, dst) == fs \cup {dst}

\* os.rename(src, dst) on the files fs
Rename(fs, src, dst) == (fs \ {src}) \cup {dst}

\* relabel_and_cluster up to its first prompt: chdir, the relabel command
RelabelEnter ==
    /\ pc = "relabel_and_cluster"
    /\ EnterDir
    /\ \E rc \in ExitCodes :
          /\ cmds' = Append(cmds, IO(Cmd("relabel_and_cluster", 0, tools["vsearch"],
                                         "run_command", <<"--fastx_filter">>, rc),
                                     {NochimFile}, {TempOtus}))
          /\ IF RunCommandRaises(rc)
             THEN /\ exits' = Append(exits, [fn |-> "relabel_and_cluster", how |-> "exception",
                                             cwd |-> OtuDir, entry |-> cwd])
                  /\ Raise
                  /\ UNCHANGED files
             ELSE /\ files' = files \cup {TempOtus}
                  /\ pc' = "relabel_choice"
                  /\ UNCHANGED <<idx, started, exits>>
    /\ UNCHANGED <<script, outdir0, metadata_file, metadata, tools, pool, warnings, config, handled, filterVars, promptVars>>

\* while choice not in ["1", "2"]: input(); "2" maps at once and renames the
\* temporary files
RelabelChoice ==
    /\ pc = "relabel_choice"
    /\ \E choice \in ChoiceInputs, rc \in ExitCodes :
          /\ entered' = Read(pc, choice, IF choice \in {"1", "2"} THEN "return" ELSE "retry")
          /\ IF choice \in {"1", "2"} THEN SetConfig("relabel_choice", choice)
             ELSE UNCHANGED config
          /\ IF choice \notin {"1", "2"}
             THEN UNCHANGED <<pc, idx, started, cmds, files, cwd, exits>>
             ELSE IF choice = "1"
             THEN pc' = "relabel_identity" /\ UNCHANGED <<idx, started, cmds, files, cwd, exits>>
             ELSE /\ cmds' = Append(cmds,
                        IO(Cmd("relabel_and_cluster", 0, tools["vsearch"],
                               "run_command", <<"--usearch_global", "0.97">>, rc),
                           {AllDerepFile, TempOtus}, {TempOtutab}))
                  /\ IF RunCommandRaises(rc)
                     THEN Propagate("relabel_and_cluster") /\ UNCHANGED files
                     ELSE /\ files' = Rename(Rename(files \cup {TempOtutab}, TempOtus, Otus),
                                          TempOtutab, Otutab)
                          /\ Return("relabel_and_cluster", "return")
    /\ UNCHANGED <<script, outdir0, metadata_file, metadata, tools, pool, warnings, orig_dir, handled,
                   filterVars, printed>>

\* float(up_identity) with 0 <= val <= 1, on the inputs of the model
IdentityInputs == {"0.97", "1.5", "abc", "exit"}
IdentityOk(value) == value \in {"0.97"}

\* the prompt for the identity, then the second clustering, the mapping and the
\* removal of the temporary file
RelabelIdentity ==
    /\ pc = "relabel_identity"
    /\ \E up_identity \in IdentityInputs, rc1 \in ExitCodes, rc2 \in ExitCodes :
          /\ entered' = Read(pc, up_identity, IF IdentityOk(up_identity) THEN "return" ELSE "retry")
          /\ IF ~IdentityOk(up_identity)
             THEN UNCHANGED <<pc, idx, started, cmds, files, cwd, exits>>
             ELSE LET cluster == IO(Cmd("relabel_and_cluster", 0, tools["vsearch"],
                                        "run_command", <<"--cluster_size", up_identity>>, rc1),
                                    {TempOtus}, {Otus})
                      map == IO(Cmd("relabel_and_cluster", 0, tools["vsearch"], "run_command",
                                    <<"--usearch_global", up_identity>>, rc2),
                                {AllDerepFile, Otus}, {Otutab})
                  IN  IF RunCommandRaises(rc1)
                      THEN /\ cmds' = Append(cmds, cluster)
                           /\ Propagate("relabel_and_cluster")
                           /\ UNCHANGED files
                      ELSE /\ cmds' = cmds \o <<cluster, map>>
                           /\ IF RunCommandRaises(rc2)
                              THEN /\ Propagate("relabel_and_cluster")
                                   /\ files' = files \cup {Otus}
                              ELSE /\ files' = (files \ {TempOtus}) \cup {Otus, Otutab}
                                   /\ Return("relabel_and_cluster", "return")
    /\ UNCHANGED <<script, outdir0, metadata_file, metadata, tools, pool, warnings, config, orig_dir, handled,
                   filterVars, printed>>

\* the awk command is run inside try/except: its failure is printed, not raised
AwkRaises(rc) == FALSE

RarefactionPdf == <<"7-OTU", "rarefaction_curve", "pdf">>

\* plot_rarefaction_curve: it asks nothing, so it is one step.  what: how the part
\* after the two commands ends
plot_rarefaction_curve ==
    /\ pc = "plot_rarefaction_curve"
    /\ orig_dir' = cwd
    /\ \E rc_awk \in ExitCodes, rc \in ExitCodes,
          what \in {"early_return", "return", "exception"} :
          LET awk == IO(Cmd("plot_rarefaction_curve", 0, "awk", "subprocess.run", << >>, rc_awk),
                        {Outside("barcoding_corrected.txt")}, {Outside("id.sample")})
              rarefy == IO(Cmd("plot_rarefaction_curve", 0, "Rarefy_OTUtab.R", "run_command",
                               <<"otutab.txt">>, rc),
                           {Otutab, Outside("id.sample")}, {})
              left(how, dir) == [fn |-> "plot_rarefaction_curve", how |-> how,
                                 cwd |-> dir, entry |-> cwd]
          IN  IF AwkRaises(rc_awk)
              THEN /\ cmds' = Append(cmds, awk)
                   /\ exits' = Append(exits, left("exception", OtuDir))
                   /\ Raise
                   /\ UNCHANGED files
              ELSE /\ cmds' = cmds \o <<awk, rarefy>>
                   /\ IF RunCommandRaises(rc) \/ what = "exception"
                      THEN \* the command fails, or the plotting raises
                           /\ exits' = Append(exits, left("exception", OtuDir))
                           /\ Raise
                           /\ UNCHANGED files
                      ELSE \* os.chdir(orig_dir) before each return
                           /\ exits' = Append(exits, left(what, cwd))
                           /\ files' = IF what = "return" THEN files \cup {RarefactionPdf}
                                       ELSE files
                           /\ GoNext("plot_rarefaction_curve")
    \* os.chdir(otu_dir) at entry; os.chdir(orig_dir) before each return only
    /\ cwd' = IF pc' = "raised" THEN OtuDir ELSE cwd
    /\ UNCHANGED <<script, outdir0, metadata_file, metadata, tools, pool, warnings, config, handled, filterVars, promptVars>>

\* filter_low_abundance_otus up to its first prompt: chdir
FilterEnter ==
    /\ pc = "filter_low_abundance_otus"
    /\ EnterDir
    /\ pc' = "filter_choice"
    /\ UNCHANGED <<script, outdir0, metadata_file, idx, metadata, tools, files, pool, cmds, warnings, started,
                   config, exits, handled, filterVars, promptVars>>

\* the filter runs whatever the choice is
DeclinesNever(choice) == FALSE

\* if choice == "2": the filter is not wanted
Declines(choice) == choice = "2"

\* while choice not in ["1", "2"]: input(); "2" returns
FilterChoice ==
    /\ pc = "filter_choice"
    /\ \E choice \in ChoiceInputs :
          /\ entered' = Read(pc, choice, IF choice \in {"1", "2"} THEN "return" ELSE "retry")
          /\ IF choice \in {"1", "2"} THEN SetConfig("filter_choice", choice)
             ELSE UNCHANGED config
          /\ IF choice \notin {"1", "2"}
             THEN UNCHANGED <<pc, idx, started, cwd, exits>>
             ELSE IF Declines(choice)
             THEN Return("filter_low_abundance_otus", "declined")
             ELSE pc' = "filter_min_count" /\ UNCHANGED <<idx, started, cwd, exits>>
    /\ UNCHANGED <<script, outdir0, metadata_file, metadata, tools, files, pool, cmds, warnings,
                   orig_dir, handled, filterVars, printed>>

\* int(text) and float(text), on the inputs of the model: whether the conversion
\* succeeds, and the number it gives (a float as <<numerator, denominator>>)
IsInt(text) == text \in {"50", "0", "-3"}
IntOf(text) == CASE text = "50" -> 50 [] text = "0" -> 0 [] text = "-3" -> 0 - 3
IsFloat(text) == text \in {"0.001", "0", "1", "1.5", "-0.2", "50"}
FloatOf(text) ==
    CASE text = "0.001" -> <<1, 1000>>
      [] text = "0" -> <<0, 1>>
      [] text = "1" -> <<1, 1>>
      [] text = "1.5" -> <<3, 2>>
      [] text = "-0.2" -> <<0 - 1, 5>>
      [] text = "50" -> <<50, 1>>

\* what the user may type at the prompt for filter_min_count
CountInputs == {"50", "0", "abc", "exit"}
\* the prompt for filter_min_count
FilterMinCount ==
    /\ pc = "filter_min_count"
    /\ \E value \in CountInputs :
          /\ entered' = Read(pc, value, IF IsInt(value) /\ IntOf(value) > 0 THEN "return" ELSE "retry")
          /\ IF IsInt(value) /\ IntOf(value) > 0
             THEN pc' = "filter_min_freq" /\ SetConfig("filter_min_count", value)
             ELSE UNCHANGED <<pc, config>>
    /\ UNCHANGED <<script, outdir0, metadata_file, idx, metadata, tools, files, pool, cmds, warnings, started,
                   cwd, orig_dir, exits, handled, filterVars, printed>>

FilterOutputs == {<<"7-OTU", "otutab.filter", "txt">>, <<"7-OTU", "otus.filter", "fasta">>,
                  <<"7-OTU", "list", "filter">>}
ListT1 == <<"7-OTU", "list", "t1">>

\* the prompt for filter_min_freq (any float is accepted), then the rest of the
\* function.  what: how the rest ends
FilterMinFreq ==
    /\ pc = "filter_min_freq"
    /\ \E value \in {"0.001", "abc", "exit"},
          what \in {"read_table_fails", "write_raises", "read_fasta_fails", "return"} :
          /\ entered' = Read(pc, value, IF IsFloat(value) THEN "return" ELSE "retry")
          /\ IF ~IsFloat(value)
             THEN UNCHANGED <<pc, idx, started, config, files, cwd, exits>>
             ELSE /\ SetConfig("filter_min_freq", value)
                  /\ IF what = "read_table_fails" \/ Otutab \notin files
                     THEN /\ Return("filter_low_abundance_otus", "table_unreadable")
                          /\ UNCHANGED files
                     ELSE IF what = "write_raises"
                     THEN /\ Propagate("filter_low_abundance_otus")
                          /\ UNCHANGED files
                     ELSE IF what = "read_fasta_fails" \/ Otus \notin files
                     THEN /\ Return("filter_low_abundance_otus", "fasta_unreadable")
                          /\ files' = files \cup {<<"7-OTU", "otutab.filter", "txt">>, ListT1}
                     ELSE /\ Return("filter_low_abundance_otus", "return")
                          /\ files' = files \cup FilterOutputs
    /\ UNCHANGED <<script, outdir0, metadata_file, metadata, tools, pool, cmds, warnings, orig_dir, handled,
                   filterVars, printed>>

(***************************************************************************)
(* Step 8: classification                                                  *)
(***************************************************************************)
\* the classification runs whatever the answer is
WantsClassifyAlways(answer) == TRUE

\* if classify.lower() == "yes"
WantsClassify(answer) == Lower(answer) = "yes"

SintaxDir == <<"8-SINTAX">>

\* the yes/no prompt; "yes" creates the directory of the classification
Classify ==
    /\ pc = "classify"
    /\ \E value \in {"YES", "no", "maybe", "exit", "exist"} :
          LET r == GetValidInput(value, Lower(value) \in {"yes", "no"})
          IN  /\ entered' = Read(pc, value, r)
              /\ IF r = "return" THEN SetConfig("classify", value) ELSE UNCHANGED config
              /\ IF r = "exit" THEN SysExit /\ UNCHANGED files
                 ELSE IF r = "retry" THEN UNCHANGED <<pc, idx, started, files>>
                 ELSE IF WantsClassify(value)
                 THEN /\ pc' = "classify_db"
                      /\ files' = files \cup {SintaxDir}
                      /\ UNCHANGED <<idx, started>>
                 ELSE GoNext("classify") /\ UNCHANGED files
    /\ UNCHANGED <<script, outdir0, metadata_file, metadata, tools, pool, cmds, warnings, cwd,
                   orig_dir, exits, handled, filterVars, printed>>

SintaxOut == {<<"8-SINTAX", "otus_sintax", "txt">>}

\* the prompt for the classification database, then the sintax command
ClassifyDb ==
    /\ pc = "classify_db"
    /\ \E value \in PathInputs, rc \in ExitCodes :
          LET r == GetValidInput(value, PathExists(value))
          IN  /\ entered' = Read(pc, value, r)
              /\ IF r = "exit" THEN SysExit /\ UNCHANGED <<cmds, files>>
                 ELSE IF r = "retry" THEN UNCHANGED <<pc, idx, started, cmds, files>>
                 ELSE RunLevel("classify", tools["vsearch"], <<"--sintax", value, "0.8">>, rc,
                               {NochimFile}, SintaxOut)
    /\ UNCHANGED <<script, outdir0, metadata_file, metadata, tools, pool, warnings, config, cwd, orig_dir,
                   exits, handled, filterVars, printed>>

(***************************************************************************)
(* The top-level handler                                                   *)
(***************************************************************************)
\* except Exception as e: logging.error, print; then the program returns
Handler ==
    /\ pc = "raised"
    /\ handled' = Append(handled, "error")
    /\ pc' = "failed"
    /\ UNCHANGED <<script, outdir0, metadata_file, idx, metadata, tools, files, pool, cmds, warnings, started,
                   config, cwd, orig_dir, exits, filterVars, promptVars>>

(***************************************************************************)
(* filter_low_abundance_otus: the filter of the table (FilterSpec)         *)
(***************************************************************************)
AllOtus == <<"OTU_1", "OTU_2", "OTU_3">>
AllSamples == <<"S1", "S2">>

\* tables of two OTUs and two samples with counts 0..MaxCount
SmallTables == [{"OTU_1", "OTU_2"} -> [{"S1", "S2"} -> 0..MaxCount]]

\* counts [120, 40, 5] of one sample
Scenario1 == [o \in {"OTU_1", "OTU_2", "OTU_3"} |->
                 [s \in {"S1"} |-> CASE o = "OTU_1" -> 120 [] o = "OTU_2" -> 40
                                     [] o = "OTU_3" -> 5]]
\* counts [9, 10, 1000] of one sample
Scenario2 == [o \in {"OTU_1", "OTU_2", "OTU_3"} |->
                 [s \in {"S1"} |-> CASE o = "OTU_1" -> 9 [] o = "OTU_2" -> 10
                                     [] o = "OTU_3" -> 1000]]

\* thresholds the two prompts accept: a positive integer, and any float (given as a
\* fraction <<numerator, denominator>> with a positive denominator)
MinCounts == 1..MaxCount
MinFreqs == {<<0, 1>>, <<1, 10>>, <<1, 2>>, <<3, 5>>, <<1, 1>>, <<3, 2>>}

FilterInputs ==
    {<<t, c, f>> : t \in SmallTables, c \in MinCounts, f \in MinFreqs}
        \cup {<<Scenario1, 50, <<1, 10>>>>, <<Scenario2, 10, <<0, 1>>>>}

OtusOf(t) == SelectSeq(AllOtus, LAMBDA o : o \in DOMAIN t)
SamplesOf(t) ==
    SelectSeq(AllSamples, LAMBDA s : \E o \in DOMAIN t : s \in DOMAIN t[o])
Cells(t) == UNION {{<<o, s>> : s \in DOMAIN t[o]} : o \in DOMAIN t}

RECURSIVE SumTo(_, _, _)
SumTo(t, s, k) == IF k = 0 THEN 0 ELSE t[OtusOf(t)[k]][s] + SumTo(t, s, k - 1)

\* df[sample].sum()
ColumnSum(t, s) == SumTo(t, s, Len(OtusOf(t)))

RECURSIVE TableSumTo(_, _)
TableSumTo(t, k) ==
    IF k = 0 THEN 0 ELSE ColumnSum(t, SamplesOf(t)[k]) + TableSumTo(t, k - 1)

\* the sum of the table being filtered, not of the table read
DenominatorInProgress(orig, cur, s) == ColumnSum(cur, s)

\* the sum of every column
DenominatorWholeTable(orig, cur, s) == TableSumTo(orig, Len(SamplesOf(orig)))

\* total = otu_df[sample].sum(): orig is otu_df, cur is otu_df_filtered
Denominator(orig, cur, s) == ColumnSum(orig, s)

\* (x / total) >= filter_min_freq, the quotient being a float: x > 0 over a zero
\* total is inf, 0 over a zero total is nan
QuotientAtLeast(x, total, freq) ==
    IF total = 0 THEN x > 0
    ELSE x * freq[2] >= freq[1] * total

\* x > filter_min_count in place of >=
LambdaStrict(x, total, min_count, min_freq) ==
    IF x > min_count
    THEN [value |-> IF QuotientAtLeast(x, total, min_freq) THEN x ELSE 0,
          zerodiv |-> total = 0]
    ELSE [value |-> 0, zerodiv |-> FALSE]

\* the frequency test turned round: (x / total) <= filter_min_freq
LambdaFreqInverted(x, total, min_count, min_freq) ==
    IF x >= min_count
    THEN [value |-> IF total # 0 /\ x * min_freq[2] <= min_freq[1] * total THEN x ELSE 0,
          zerodiv |-> total = 0]
    ELSE [value |-> 0, zerodiv |-> FALSE]

\* the quotient evaluated before the count test
LambdaDivideFirst(x, total, min_count, min_freq) ==
    [value |-> IF QuotientAtLeast(x, total, min_freq) /\ x >= min_count THEN x ELSE 0,
     zerodiv |-> total = 0]

\* a cell that fails a test is set to the count threshold, not to 0
LambdaFloor(x, total, min_count, min_freq) ==
    IF x >= min_count
    THEN [value |-> IF QuotientAtLeast(x, total, min_freq) THEN x ELSE min_count,
          zerodiv |-> total = 0]
    ELSE [value |-> min_count, zerodiv |-> FALSE]

\* lambda x: x if (x >= filter_min_count and (x / total) >= filter_min_freq) else 0
\* `and` evaluates the quotient only when the count test holds; zerodiv tells
\* whether a quotient over a zero total was evaluated
Lambda(x, total, min_count, min_freq) ==
    IF x >= min_count
    THEN [value |-> IF QuotientAtLeast(x, total, min_freq) THEN x ELSE 0,
          zerodiv |-> total = 0]
    ELSE [value |-> 0, zerodiv |-> FALSE]

\* the lambda on one cell of column s
ApplyCell(orig, cur, o, s) ==
    Lambda(orig[o][s], Denominator(orig, cur, s), filter_min_count, filter_min_freq)

\* the cells in the order of the loop: column by column, each column row by row
LoopOrder(t) ==
    LET rows == OtusOf(t)
        cols == SamplesOf(t)
    IN  [k \in 1..(Len(rows) * Len(cols)) |->
            <<rows[((k - 1) % Len(rows)) + 1], cols[((k - 1) \div Len(rows)) + 1]>>]

RECURSIVE FilterFrom(_, _, _)
FilterFrom(orig, cur, k) ==
    IF k > Len(LoopOrder(orig)) THEN cur
    ELSE LET o == LoopOrder(orig)[k][1]
             s == LoopOrder(orig)[k][2]
         IN  FilterFrom(orig, [cur EXCEPT ![o][s] = ApplyCell(orig, cur, o, s).value], k + 1)

\* the table the loop of lines 379-383 makes of t
FilterTable(t) == FilterFrom(t, t, 1)

FilterInit ==
    /\ script = 2
    /\ pc = "filter_min_freq"
    /\ idx = 1
    /\ metadata = << >>
    /\ tools = [t \in {} |-> ""]
    /\ outdir0 = {}
    /\ metadata_file = << >>
    /\ files = {}
    /\ pool = << >>
    /\ cmds = << >>
    /\ warnings = << >>
    /\ started = << >>
    /\ config = [c \in {} |-> ""]
    /\ cwd = OtuDir
    /\ orig_dir = "launch"
    /\ exits = << >>
    /\ handled = << >>
    /\ \E in \in FilterInputs :
          /\ otutab = in[1]
          /\ otu_df = in[1]
          /\ otu_df_filtered = in[1]
          /\ filter_min_count = in[2]
          /\ filter_min_freq = in[3]
    /\ applied = {}
    /\ totals = NoTable
    /\ zerodiv = FALSE
    /\ pass = 1
    /\ first_result = NoTable
    /\ PartitionIdle
    /\ PromptIdle

\* one evaluation of the lambda.  The loop takes the cells column by column; the
\* model lets them be taken in any order
ApplyLambda ==
    /\ \E c \in Cells(otu_df) \ applied :
          LET o == c[1]
              s == c[2]
              r == ApplyCell(otu_df, otu_df_filtered, o, s)
          IN  /\ otu_df_filtered' = [otu_df_filtered EXCEPT ![o][s] = r.value]
              /\ totals' = [d \in applied \cup {c} |->
                               IF d = c THEN Denominator(otu_df, otu_df_filtered, s)
                               ELSE totals[d]]
              /\ zerodiv' = (zerodiv \/ r.zerodiv)
              /\ applied' = applied \cup {c}
    /\ UNCHANGED <<otutab, otu_df, filter_min_count, filter_min_freq, pass, first_result>>
    /\ UNCHANGED <<pipeVars, partVars, promptVars>>

\* the filtered table is filtered again with the same thresholds
FilterAgain ==
    /\ pass = 1
    /\ applied = Cells(otu_df)
    /\ first_result' = otu_df_filtered
    /\ otu_df' = otu_df_filtered
    /\ applied' = {}
    /\ totals' = NoTable
    /\ pass' = 2
    /\ UNCHANGED <<otutab, otu_df_filtered, filter_min_count, filter_min_freq, zerodiv>>
    /\ UNCHANGED <<pipeVars, partVars, promptVars>>

FilterNext ==
    \/ ApplyLambda
    \/ FilterAgain

FilterSpec == FilterInit /\ [][FilterNext]_vars

(***************************************************************************)
(* filter_low_abundance_otus: steps 2-4, the sequences that pass           *)
(* (PartitionSpec)                                                         *)
(***************************************************************************)
\* the characters of a row label
Chars == [o \in {"OTU_1", "OTU_2", "OTU_3"} |->
             CASE o = "OTU_1" -> <<"O", "T", "U", "_", "1">>
               [] o = "OTU_2" -> <<"O", "T", "U", "_", "2">>
               [] o = "OTU_3" -> <<"O", "T", "U", "_", "3">>]

\* record ids otus.fasta can hold: vsearch writes <label>;size=<n>
FastaIds == {Chars["OTU_1"] \o <<";", "s">>,
             Chars["OTU_2"] \o <<";", "s">>,
             Chars["OTU_3"] \o <<";", "s">>,
             Chars["OTU_1"] \o <<"1", ";", "s">>,
             Chars["OTU_2"]}

Whitespace == {" ", "\t", "\n"}

RECURSIVE LStrip(_)
LStrip(line) ==
    IF line # << >> /\ Head(line) \in Whitespace THEN LStrip(Tail(line)) ELSE line

RECURSIVE RStrip(_)
RStrip(line) ==
    IF line # << >> /\ line[Len(line)] \in Whitespace
    THEN RStrip(SubSeq(line, 1, Len(line) - 1)) ELSE line

\* line.strip()
Strip(line) == RStrip(LStrip(line))

RECURSIVE FirstField(_)
\* line.split("\t")[0]
FirstField(line) ==
    IF line = << >> \/ Head(line) = "\t" THEN << >>
    ELSE <<Head(line)>> \o FirstField(Tail(line))

\* the line to_csv writes for row o: the label, then one field for each sample
\* (the text of a count is not read back; "n" stands for it)
TableLine(t, o) ==
    Chars[o] \o [k \in 1..(2 * Len(SamplesOf(t))) |-> IF k % 2 = 1 THEN "\t" ELSE "n"]
        \o <<"\n">>

\* the id without the delimiter
OtuIdBare(line) == FirstField(Strip(line))

\* fields[0] + ";"
OtuId(line) == FirstField(Strip(line)) \o <<";">>

\* otu in rid, both strings
Contains(rid, otu) ==
    \E i \in 1..(Len(rid) - Len(otu) + 1) : SubSeq(rid, i, i + Len(otu) - 1) = otu

\* tables of one sample whose counts are 0, 1 or MaxCount
PartitionTables ==
    UNION {[rows -> [{"S1"} -> {0, 1, MaxCount}]] : rows \in SUBSET {"OTU_1", "OTU_2", "OTU_3"}}

PartitionInit ==
    /\ script = 2
    /\ pc = "filter_min_freq"
    /\ idx = 1
    /\ metadata = << >>
    /\ tools = [t \in {} |-> ""]
    /\ outdir0 = {}
    /\ metadata_file = << >>
    /\ files = {}
    /\ pool = << >>
    /\ cmds = << >>
    /\ warnings = << >>
    /\ started = << >>
    /\ config = [c \in {} |-> ""]
    /\ cwd = OtuDir
    /\ orig_dir = "launch"
    /\ exits = << >>
    /\ handled = << >>
    /\ otutab \in PartitionTables
    /\ otu_df = otutab
    /\ filter_min_count \in MinCounts
    /\ filter_min_freq = <<0, 1>>
    /\ otu_df_filtered =
          [o \in DOMAIN otutab |->
              [s \in DOMAIN otutab[o] |->
                  Lambda(otutab[o][s], ColumnSum(otutab, s), filter_min_count,
                         filter_min_freq).value]]
    /\ applied = Cells(otutab)
    /\ totals = [c \in Cells(otutab) |-> ColumnSum(otutab, c[2])]
    /\ zerodiv = FALSE
    /\ pass = 1
    /\ first_result = NoTable
    /\ ppc = "extract_ids"
    /\ otu_ids = << >>
    /\ all_otus = {}
    /\ matched = 0
    /\ passed_ids = {}
    /\ failed_ids = {}
    /\ passed_out = {}
    /\ failed_out = {}
    /\ PromptIdle

tableVars == <<otutab, otu_df, otu_df_filtered, filter_min_count, filter_min_freq,
               applied, totals, zerodiv, pass, first_result>>

\* Step2: the ids of the lines of otutab.filter.txt after its header
ExtractIds ==
    /\ ppc = "extract_ids"
    /\ otu_ids' = [k \in 1..Len(OtusOf(otu_df_filtered)) |->
                      OtuId(TableLine(otu_df_filtered, OtusOf(otu_df_filtered)[k]))]
    /\ ppc' = "read_fasta"
    /\ UNCHANGED <<all_otus, matched, passed_ids, failed_ids, passed_out, failed_out>>
    /\ UNCHANGED <<pipeVars, tableVars, promptVars>>

\* Step3: SeqIO.parse("otus.fasta") fills all_otus, or fails and the function returns
ReadFasta ==
    /\ ppc = "read_fasta"
    /\ \/ /\ all_otus' \in SUBSET FastaIds
          /\ ppc' = "match"
       \/ /\ all_otus' = {}
          /\ ppc' = "returned"
    /\ UNCHANGED <<otu_ids, matched, passed_ids, failed_ids, passed_out, failed_out>>
    /\ UNCHANGED <<pipeVars, tableVars, promptVars>>

\* one turn of `for otu in otu_ids`: every rid that contains otu is added
MatchOtu ==
    /\ ppc = "match"
    /\ matched < Len(otu_ids)
    /\ passed_ids' = passed_ids \cup {rid \in all_otus : Contains(rid, otu_ids[matched + 1])}
    /\ matched' = matched + 1
    /\ UNCHANGED <<ppc, otu_ids, all_otus, failed_ids, passed_out, failed_out>>
    /\ UNCHANGED <<pipeVars, tableVars, promptVars>>

\* otus.filter.fasta is written, then failed_ids is computed and list.filter written
WriteOutputs ==
    /\ ppc = "match"
    /\ matched = Len(otu_ids)
    /\ passed_out' = passed_ids
    /\ failed_ids' = all_otus \ passed_ids
    /\ failed_out' = all_otus \ passed_ids
    /\ ppc' = "done"
    /\ UNCHANGED <<otu_ids, all_otus, matched, passed_ids>>
    /\ UNCHANGED <<pipeVars, tableVars, promptVars>>

PartitionNext ==
    \/ ExtractIds
    \/ ReadFasta
    \/ MatchOtu
    \/ WriteOutputs

PartitionSpec == PartitionInit /\ [][PartitionNext]_vars

(***************************************************************************)
(* get_valid_input and check_tool on their own (PromptSpec)                *)
(***************************************************************************)
\* how many messages one prompt loop is followed through
MaxRetries == 2

\* the validators the callers pass, and no validator
Validators == {"None", "choice", "positive", "exists", "yes_no"}

\* paths that exist where the program runs: a database, and a file named exit
ExistingPaths == Databases \cup {"exit"}

\* validator(value)
Accepts(validator, value) ==
    CASE validator = "None" -> TRUE
      [] validator = "choice" -> value \in {"1", "2"}
      [] validator = "positive" -> IsDigit(value) /\ ToInt(value) > 0
      [] validator = "exists" -> value \in ExistingPaths
      [] validator = "yes_no" -> Lower(value) \in {"yes", "no"}

\* what the user may type at a prompt
PromptInputs == {"1", " 2 ", "3", "0", "200", "YES", "ref.fa", "exit", " EXIT ", "exist", ""}

\* raw.strip(), on the inputs of the model
StripText(raw) ==
    CASE raw = " 2 " -> "2"
      [] raw = " EXIT " -> "EXIT"
      [] raw = " exist " -> "exist"
      [] OTHER -> raw

\* what the user may type at the prompt of check_tool
DirInputs == {"/opt/bin", "'/opt/bin'", "/data", "/nowhere", "exit", " EXIST "}

\* dir_input.strip("'"), on the inputs of the model
StripQuotes(raw) == IF raw = "'/opt/bin'" THEN "/opt/bin" ELSE raw

\* dir_input.strip().lower(), on the inputs of the model
StripLower(raw) == IF raw = " EXIST " THEN "exist" ELSE Lower(raw)

\* os.path.join(os.path.abspath(dir), tool_name); the directories of the model are
\* absolute or are no directories
ToolPath(dir, tool_name) == <<dir, tool_name>>

\* shutil.which(tool_name) when it finds the tool
WhichPath(tool_name) == <<"/usr/bin", tool_name>>

\* the files named as the tools: those of /opt/bin can be executed, those of /data not
ToolFiles == {<<d, t>> : d \in {"/opt/bin", "/data"}, t \in {ToolNames[k] : k \in 1..Len(ToolNames)}}
ExecutableFiles == {f \in ToolFiles : f[1] = "/opt/bin"}

\* os.path.isfile alone
IsFile(path) == path \in ToolFiles

\* os.path.isfile(tool_full_path) and os.access(tool_full_path, os.X_OK)
IsExecutableFile(path) == path \in ToolFiles /\ path \in ExecutableFiles

PromptInit ==
    /\ script \in {1, 2}
    /\ \/ /\ pc = "get_valid_input"
          /\ \E v \in Validators : config = [validator |-> v]
       \/ /\ pc = "check_tool"
          /\ \E k \in 1..Len(ToolNames) : config = [tool_name |-> ToolNames[k]]
       \/ /\ pc = "filter_min_count"
          /\ config = [choice |-> "1"]
    /\ idx = 1
    /\ metadata = << >>
    /\ metadata_file = << >>
    /\ tools = [t \in {} |-> ""]
    /\ outdir0 = {}
    /\ files = {}
    /\ pool = << >>
    /\ cmds = << >>
    /\ warnings = << >>
    /\ started = << >>
    /\ cwd = "launch"
    /\ orig_dir = "launch"
    /\ exits = << >>
    /\ handled = << >>
    /\ FilterIdle
    /\ PromptIdle

promptFrame == <<script, outdir0, metadata_file, idx, metadata, files, pool, cmds, warnings,
                 started, cwd, orig_dir, exits, handled, filterVars>>

\* one round of the loop of get_valid_input
GetValidInputRound ==
    /\ pc = "get_valid_input"
    /\ Len(printed) < MaxRetries
    /\ \E raw \in PromptInputs :
          LET value == StripText(raw)
              r == GetValidInput(value, Accepts(config["validator"], value))
          IN  /\ entered' = [site |-> pc, text |-> raw, result |-> r]
              /\ IF r = "exit" THEN pc' = "exited" /\ UNCHANGED <<config, printed>>
                 ELSE IF r = "return"
                 THEN pc' = "returned" /\ SetConfig("value", value) /\ UNCHANGED printed
                 ELSE /\ printed' = Append(printed, "error_msg")
                      /\ UNCHANGED <<pc, config>>
    /\ UNCHANGED <<promptFrame, tools>>

\* check_tool up to its loop: shutil.which
CheckToolWhich ==
    /\ pc = "check_tool"
    /\ \E found \in BOOLEAN :
          IF found
          THEN /\ tools' = [t \in {config["tool_name"]} |-> WhichPath(t)]
               /\ SetConfig("which", "found")
               /\ pc' = "returned"
          ELSE /\ SetConfig("which", "None")
               /\ pc' = "check_tool_loop"
               /\ UNCHANGED tools
    /\ UNCHANGED <<promptFrame, promptVars>>

\* one round of the loop of check_tool
CheckToolRound ==
    /\ pc = "check_tool_loop"
    /\ Len(printed) < MaxRetries
    /\ \E dir_input \in DirInputs :
          LET tool_full_path == ToolPath(StripQuotes(dir_input), config["tool_name"])
              r == IF StripLower(dir_input) = Sentinel THEN "exit"
                   ELSE IF IsExecutableFile(tool_full_path) THEN "return"
                   ELSE "retry"
          IN  /\ entered' = [site |-> pc, text |-> dir_input, result |-> r]
              /\ IF r = "exit" THEN pc' = "exited" /\ UNCHANGED <<tools, printed>>
                 ELSE IF r = "return"
                 THEN /\ tools' = [t \in {config["tool_name"]} |-> tool_full_path]
                      /\ pc' = "returned"
                      /\ UNCHANGED printed
                 ELSE /\ printed' = Append(printed, "Tool not found or not executable.")
                      /\ UNCHANGED <<pc, tools>>
    /\ UNCHANGED <<promptFrame, config>>

\* what the user may type at the two threshold prompts
ThresholdInputs == {"50", "0", "-3", "0.001", "1", "1.5", "-0.2", "abc", "exit"}

\* one round of the loop for filter_min_count: int(input().strip()) > 0
MinCountRound ==
    /\ pc = "filter_min_count"
    /\ Len(printed) < MaxRetries
    /\ \E text \in ThresholdInputs :
          LET ok == IsInt(text) /\ IntOf(text) > 0
          IN  /\ entered' = [site |-> pc, text |-> text,
                             result |-> IF ok THEN "return" ELSE "retry"]
              /\ IF ok
                 THEN /\ filter_min_count' = IntOf(text)
                      /\ pc' = "filter_min_freq"
                      /\ UNCHANGED printed
                 ELSE /\ printed' = Append(printed, "error_msg")
                      /\ UNCHANGED <<pc, filter_min_count>>
    /\ UNCHANGED <<script, outdir0, metadata_file, idx, metadata, tools, files, pool, cmds, warnings,
                   started, config, cwd, orig_dir, exits, handled>>
    /\ UNCHANGED <<otutab, otu_df, otu_df_filtered, filter_min_freq, applied, totals, zerodiv,
                   pass, first_result, partVars>>

\* one round of the loop for filter_min_freq: float(input().strip())
MinFreqRound ==
    /\ pc = "filter_min_freq"
    /\ Len(printed) < MaxRetries
    /\ \E text \in ThresholdInputs :
          /\ entered' = [site |-> pc, text |-> text,
                         result |-> IF IsFloat(text) THEN "return" ELSE "retry"]
          /\ IF IsFloat(text)
             THEN /\ filter_min_freq' = FloatOf(text)
                  /\ pc' = "thresholds_read"
                  /\ UNCHANGED printed
             ELSE /\ printed' = Append(printed, "error_msg")
                  /\ UNCHANGED <<pc, filter_min_freq>>
    /\ UNCHANGED <<script, outdir0, metadata_file, idx, metadata, tools, files, pool, cmds, warnings,
                   started, config, cwd, orig_dir, exits, handled>>
    /\ UNCHANGED <<otutab, otu_df, otu_df_filtered, filter_min_count, applied, totals, zerodiv,
                   pass, first_result, partVars>>

PromptNext ==
    \/ MinCountRound
    \/ MinFreqRound
    \/ GetValidInputRound
    \/ CheckToolWhich
    \/ CheckToolRound

PromptSpec == PromptInit /\ [][PromptNext]_vars

(***************************************************************************)
(* Properties of the run (Spec)                                            *)
(***************************************************************************)
Last(q) == q[Len(q)]
StagesStarted == {started[k] : k \in 1..Len(started)}

Issued(s, i) == \E k \in 1..Len(cmds) : cmds[k].stage = s /\ cmds[k].row = i
Warned(s, i) == \E k \in 1..Len(warnings) : warnings[k] = [stage |-> s, row |-> i]

\* the rows the loop of stage s has dealt with: all of them once a later stage has
\* started; up to the row a command failed in when the run has raised there
Processed(s) ==
    IF s \notin StagesStarted THEN {}
    ELSE IF Last(started) # s THEN 1..Len(metadata)
    ELSE IF pc \in {"raised", "failed"} THEN 1..idx
    ELSE 1..(idx - 1)

BothRawExist(row) == row.forward_file \in InputDir /\ row.reverse_file \in InputDir

\* C1: external commands are issued in the stage order demultiplex, merge, quality
\* filter, dereplicate, cluster, chimera detection, OTU table build,
\* relabel/recluster, rarefaction, abundance filter, classify: no command of a stage
\* follows a command of a later stage, and within a per-sample stage the commands
\* follow the order of the metadata rows.
StageOrderKept ==
    \A j, k \in 1..Len(cmds) :
        j < k => /\ StageRank(cmds[j].stage) <= StageRank(cmds[k].stage)
                 /\ (cmds[j].stage = cmds[k].stage /\ cmds[j].stage \in PerSampleStages)
                       => cmds[j].row <= cmds[k].row

\* a completed run of script 2 over two rows that issued commands for both rows in
\* the first stage and a command in the last one
StageOrderWitness ==
    /\ pc = "completed"
    /\ script = 2
    /\ Issued("demultiplex", 1) /\ Issued("demultiplex", 2)
    /\ Issued("dereplicate", 2)
    /\ Issued("plot_rarefaction_curve", 0)
    /\ Issued("classify", 0)

\* C2: in the demultiplex stage every row whose two raw files exist gets exactly one
\* command, carrying the row's forward and reverse primers, and every row with a
\* missing file gets no command and one warning.  Stated for every state: the rows
\* the loop has dealt with are as said, the rows it has not reached have neither.
DemuxOnePerPresentRow ==
    \A i \in 1..Len(metadata) :
        LET row == metadata[i]
            issued == {k \in 1..Len(cmds) :
                          cmds[k].stage = "demultiplex" /\ cmds[k].row = i}
            warned == {k \in 1..Len(warnings) :
                          warnings[k] = [stage |-> "demultiplex", row |-> i]}
        IN  IF i \notin Processed("demultiplex")
            THEN issued = {} /\ warned = {}
            ELSE IF BothRawExist(row)
            THEN /\ Cardinality(issued) = 1
                 /\ \A k \in issued :
                       /\ cmds[k].args = <<row.primers[1], row.primers[2],
                                           row.forward_file, row.reverse_file>>
                       /\ cmds[k].tool = tools["cutadapt"]
                 /\ warned = {}
            ELSE issued = {} /\ Cardinality(warned) = 1

\* the demultiplex stage has ended over a row without its forward file and a row
\* with both files and other primers
DemuxWitness ==
    /\ pc = "merge"
    /\ Len(metadata) = 2
    /\ metadata[1].forward_file \notin InputDir /\ metadata[1].reverse_file \in InputDir
    /\ BothRawExist(metadata[2])
    /\ metadata[1].primers # metadata[2].primers
    /\ Len(cmds) = 1 /\ Len(warnings) = 1

\* whether stage s finds the input of row i: a function of the raw files of the
\* rows of the same sample and of what the output directory held for that sample
OwnInput(s, i) ==
    LET id == metadata[i].sample_id
    IN  IF s = "demultiplex" THEN BothRawExist(metadata[i])
        ELSE \/ \E j \in 1..Len(metadata) :
                   metadata[j].sample_id = id /\ BothRawExist(metadata[j])
             \/ DemuxOut(id) \subseteq outdir0

Artifact(s, id) ==
    CASE s = "demultiplex" -> DemuxOut(id)
      [] s = "merge" -> MergeOut(id)
      [] s = "quality" -> QualityOut(id)
      [] s = "dereplicate" -> DerepOut(id)

\* A's forward file is missing, B's raw files exist, A and B are two samples
ScenarioAB(a, b) ==
    /\ Len(metadata) = 2
    /\ {a, b} = {1, 2}
    /\ metadata[a].sample_id # metadata[b].sample_id
    /\ metadata[a].forward_file \notin InputDir
    /\ BothRawExist(metadata[b])

NoCommandFailed == \A k \in 1..Len(cmds) : cmds[k].rc = 0

\* C3: with samples A (forward file missing) and B (both files present) and every
\* command succeeding, the run logs the skip of A, does not stop, issues the command
\* of B in demultiplex, merge, quality filter and dereplicate and leaves B's
\* artifact, and goes on to clustering; and in general a skipped sample changes no
\* other sample's commands: every row a per-sample stage has dealt with has a
\* command exactly when its own sample's input is there, a warning otherwise.
SkipIsLocal ==
    /\ \A s \in PerSampleStages, i \in 1..Len(metadata) :
          /\ Issued(s, i) => OwnInput(s, i)
          /\ Warned(s, i) => ~OwnInput(s, i)
          /\ i \in Processed(s) => (Issued(s, i) \/ Warned(s, i))
          /\ i \notin Processed(s) => ~(Issued(s, i) \/ Warned(s, i))
    /\ \A a, b \in {1, 2} :
          (ScenarioAB(a, b) /\ NoCommandFailed) =>
             /\ a \in Processed("demultiplex") => Warned("demultiplex", a)
             /\ \A s \in PerSampleStages :
                   b \in Processed(s) =>
                      Issued(s, b) /\ Artifact(s, metadata[b].sample_id) \subseteq files
             /\ "cluster" \notin StagesStarted => pc \notin {"raised", "failed", "completed"}

\* the scenario of C3 with A first, all commands succeeding, clustering reached
SkipWitness ==
    /\ ScenarioAB(1, 2)
    /\ NoCommandFailed
    /\ "cluster" \in StagesStarted
    /\ Warned("demultiplex", 1)
    /\ \A s \in PerSampleStages : Issued(s, 2)

\* a command whose failure the code catches and prints: the awk command of
\* plot_rarefaction_curve
Tolerated(c) == c.tool = "awk"

\* the run has been aborted at command k: it is the last command, the run has
\* raised, and no stage was started after the stage of the command
AbortedAt(k) ==
    /\ k = Len(cmds)
    /\ pc \in {"raised", "failed"}
    /\ Last(started) = cmds[k].stage

CwdRestoredOnEveryExit ==
    \A k \in 1..Len(exits) : exits[k].cwd = exits[k].entry


(***************************************************************************)
(* Properties of the filter (FilterSpec)                                   *)
(***************************************************************************)
FilterDone == pass >= 1 /\ applied = Cells(otu_df)

\* the filtered value as section 6 of the specification states it
Filtered(x, total) ==
    IF x >= filter_min_count /\ x * filter_min_freq[2] >= filter_min_freq[1] * total
    THEN x ELSE 0

Column(t, s) == [k \in 1..Len(OtusOf(t)) |-> t[OtusOf(t)[k]][s]]

\* C6: a cell the lambda was applied to holds x when x >= min_count and
\* x / total >= min_freq and 0 otherwise, total being the sum of its column in the
\* table read; a cell not yet reached holds x.  Counts [120, 40, 5] with 50 and 0.1
\* become [120, 0, 0]; counts [9, 10, 1000] with 10 and 0 become [0, 10, 1000].
FilterClosedForm ==
    /\ pass = 1 =>
          \A c \in Cells(otutab) :
              otu_df_filtered[c[1]][c[2]] =
                  IF c \in applied
                  THEN Filtered(otutab[c[1]][c[2]], ColumnSum(otutab, c[2]))
                  ELSE otutab[c[1]][c[2]]
    /\ (pass = 1 /\ FilterDone /\ otutab = Scenario1 /\ filter_min_count = 50
           /\ filter_min_freq = <<1, 10>>)
          => Column(otu_df_filtered, "S1") = <<120, 0, 0>>
    /\ (pass = 1 /\ FilterDone /\ otutab = Scenario2 /\ filter_min_count = 10
           /\ filter_min_freq = <<0, 1>>)
          => Column(otu_df_filtered, "S1") = <<0, 10, 1000>>

\* the table holds a cell kept, a cell zeroed by the count test and a cell that
\* passes the count test and is zeroed by the frequency test
FilterClosedFormWitness ==
    /\ pass = 1
    /\ FilterDone
    /\ \E c \in Cells(otutab) : otu_df_filtered[c[1]][c[2]] > 0
    /\ \E c \in Cells(otutab) :
          otutab[c[1]][c[2]] >= filter_min_count /\ otu_df_filtered[c[1]][c[2]] = 0
    /\ \E c \in Cells(otutab) :
          otutab[c[1]][c[2]] > 0 /\ otutab[c[1]][c[2]] < filter_min_count

\* C7: every cell is divided by the sum of its column in the table read, whatever
\* was zeroed before it, and the filtered table is the one the loop's own order
\* gives, whatever the order the cells were taken in.
DenominatorIsOriginalSum ==
    /\ \A c \in applied : totals[c] = ColumnSum(otu_df, c[2])
    /\ FilterDone => otu_df_filtered = FilterTable(otu_df)

\* a column that lost a cell and kept another
DenominatorWitness ==
    /\ pass = 1
    /\ FilterDone
    /\ \E c \in Cells(otutab) :
          /\ ColumnSum(otu_df_filtered, c[2]) > 0
          /\ ColumnSum(otu_df_filtered, c[2]) < ColumnSum(otutab, c[2])

\* C8: filtering the filtered table with the same thresholds changes nothing.
FilterIdempotent ==
    pass = 2 =>
        /\ \A c \in applied : otu_df_filtered[c[1]][c[2]] = first_result[c[1]][c[2]]
        /\ FilterDone => otu_df_filtered = first_result

\* the second pass has ended on a table the first pass changed and did not empty
FilterIdempotentWitness ==
    /\ pass = 2
    /\ FilterDone
    /\ first_result # otutab
    /\ \E c \in Cells(otutab) : first_result[c[1]][c[2]] > 0

\* table t with every column but s replaced by the columns of alt
WithOtherColumns(t, s, alt) ==
    [o \in DOMAIN t |-> [c \in DOMAIN t[o] |-> IF c = s THEN t[o][c] ELSE alt[o][c]]]

OtherColumns(t, s) ==
    [DOMAIN t -> [{c[2] : c \in Cells(t)} \ {s} -> 0..MaxCount]]

\* C9: the filtered column of a sample is the same in every table that has the
\* same column for that sample, whatever its other columns hold.
ColumnsIndependent ==
    (pass = 1 /\ FilterDone) =>
        \A s \in {c[2] : c \in Cells(otutab)} :
            \A alt \in OtherColumns(otutab, s) :
                Column(FilterTable(WithOtherColumns(otutab, s, alt)), s)
                    = Column(otu_df_filtered, s)

\* two columns of different sums, the first with a cell kept and a cell lost
ColumnsIndependentWitness ==
    /\ pass = 1
    /\ FilterDone
    /\ {c[2] : c \in Cells(otutab)} = {"S1", "S2"}
    /\ ColumnSum(otutab, "S1") # ColumnSum(otutab, "S2")
    /\ \E o \in DOMAIN otutab : otu_df_filtered[o]["S1"] > 0
    /\ \E o \in DOMAIN otutab : otutab[o]["S1"] > 0 /\ otu_df_filtered[o]["S1"] = 0

\* C10: with a column of zeros no quotient over the zero total is evaluated, and
\* the cells of that column the lambda was applied to are 0.
ZeroColumnStaysZero ==
    \A s \in {c[2] : c \in Cells(otu_df)} :
        ColumnSum(otu_df, s) = 0 =>
            /\ ~zerodiv
            /\ \A o \in DOMAIN otu_df : otu_df_filtered[o][s] = 0

\* a column of zeros beside a column that keeps a cell
ZeroColumnWitness ==
    /\ pass = 1
    /\ FilterDone
    /\ \E s \in {c[2] : c \in Cells(otutab)} : ColumnSum(otutab, s) = 0
    /\ \E c \in Cells(otutab) : otu_df_filtered[c[1]][c[2]] > 0


(***************************************************************************)
(* Properties of the passed and failed sets (PartitionSpec)                *)
(***************************************************************************)
\* rid holds the characters of label o followed by ';'
HoldsLabel(rid, o) ==
    \E i \in 1..Len(rid) :
        /\ i + Len(Chars[o]) <= Len(rid)
        /\ \A k \in 1..Len(Chars[o]) : rid[i + k - 1] = Chars[o][k]
        /\ rid[i + Len(Chars[o])] = ";"

\* C11: when the filter function has written its outputs, passed_ids and failed_ids
\* are disjoint, their union is the ids read from otus.fasta, an id is passed
\* exactly when it holds some row label of the filtered table followed by ';', and
\* otus.filter.fasta holds the passed records only, list.filter the failed ids only.
PassedFailedPartition ==
    /\ passed_out \subseteq passed_ids
    /\ failed_out \subseteq failed_ids
    /\ ppc = "done" =>
          /\ passed_ids \cap failed_ids = {}
          /\ passed_ids \cup failed_ids = all_otus
          /\ \A rid \in all_otus :
                rid \in passed_ids <=> \E o \in DOMAIN otu_df_filtered : HoldsLabel(rid, o)
          /\ passed_out = passed_ids
          /\ failed_out = failed_ids
          /\ passed_out \cap failed_out = {}

\* OTU_1 is a row whose counts were all zeroed, its sequence passes, and the
\* sequence of OTU_11, which is no row, fails
PartitionWitness ==
    /\ ppc = "done"
    /\ "OTU_1" \in DOMAIN otu_df_filtered
    /\ otutab["OTU_1"]["S1"] > 0
    /\ otu_df_filtered["OTU_1"]["S1"] = 0
    /\ Chars["OTU_1"] \o <<";", "s">> \in passed_out
    /\ Chars["OTU_1"] \o <<"1", ";", "s">> \in failed_out
    /\ Chars["OTU_2"] \in failed_out


StartedDirectly(c) ==
    \/ c.stage = "quality" /\ c.tool = tools["seqkit"] /\ config["marker_type"] = "2"
    \/ c.stage = "plot_rarefaction_curve" /\ c.tool = "awk"

SentinelEntered == Lower(entered.text) = Sentinel

\* C13: when the last text read at a prompt is the sentinel, the program has ended
\* there.
SentinelEndsProgram == SentinelEntered => pc = "exited"

QualityPositions ==
    {"quality", "quality_min", "quality_max", "quality_lengths", "quality_range",
     "quality_fixed"}

QualityLeft == "quality" \in StagesStarted /\ pc \notin QualityPositions

\* C17: once the quality stage is left, by completion or by failure, no sample's
\* temp file exists.
TempFileRemovedOnLeave ==
    QualityLeft => \A k \in 1..Len(metadata) : TempFile(metadata[k].sample_id) \notin files


(***************************************************************************)
(* Properties of the prompts (PromptSpec)                                  *)
(***************************************************************************)
InGetValidInput == "validator" \in DOMAIN config
InCheckTool == "tool_name" \in DOMAIN config

\* C14: get_valid_input returns a value only if the validator accepts it, or there
\* is none, and the value is not the sentinel; the sentinel ends the program even
\* where the validator accepts it; a rejected input prints the message and the
\* prompt is shown again.
GetValidInputContract ==
    InGetValidInput =>
        /\ pc = "returned" =>
              /\ config["value"] = StripText(entered.text)
              /\ Accepts(config["validator"], config["value"])
              /\ Lower(config["value"]) # Sentinel
        /\ (entered # NoInput /\ Lower(StripText(entered.text)) = Sentinel) => pc = "exited"
        /\ pc = "exited" => Lower(StripText(entered.text)) = Sentinel
        /\ entered.result = "retry" =>
              /\ pc = "get_valid_input"
              /\ ~Accepts(config["validator"], StripText(entered.text))
              /\ printed # << >>
              /\ printed[Len(printed)] = "error_msg"

\* the sentinel was typed where the validator accepts it, and the program ended
GetValidInputWitness ==
    /\ InGetValidInput
    /\ pc = "exited"
    /\ printed # << >>
    /\ Accepts(config["validator"], StripText(entered.text))

\* C15: check_tool returns the path of the search path or, when there is none, the
\* join of an entered directory with the tool name that is an executable file; the
\* loop is entered only when the lookup fails; a directory that yields no such file
\* is rejected and asked again; the sentinel ends the program.
CheckToolContract ==
    InCheckTool =>
        /\ pc = "returned" =>
              LET name == config["tool_name"]
              IN  \/ config["which"] = "found" /\ tools[name] = WhichPath(name)
                                               /\ entered = NoInput
                  \/ /\ config["which"] = "None"
                     /\ tools[name] \in ExecutableFiles
                     /\ tools[name] = <<StripQuotes(entered.text), name>>
        /\ pc = "check_tool_loop" => config["which"] = "None"
        /\ entered # NoInput => config["which"] = "None"
        /\ entered.result = "retry" =>
              /\ pc = "check_tool_loop"
              /\ <<StripQuotes(entered.text), config["tool_name"]>> \notin ExecutableFiles
              /\ printed # << >>
        /\ (entered # NoInput /\ StripLower(entered.text) = Sentinel) => pc = "exited"
        /\ pc = "exited" => StripLower(entered.text) = Sentinel

\* after a directory was rejected, a quoted directory that holds the tool was taken
CheckToolWitness ==
    /\ InCheckTool
    /\ pc = "returned"
    /\ printed # << >>
    /\ entered.text = "'/opt/bin'"

\* the status the program ends with: sys.exit(message) ends it with status 1, the
\* handler's return and the end of main() with status 0
ExitStatus == IF pc = "exited" THEN 1 ELSE 0

ExtensionFunctions == {"relabel_and_cluster", "plot_rarefaction_curve",
                       "filter_low_abundance_otus"}

DereplicateCompleted ==
    \E k \in 1..Len(started) : started[k] = "dereplicate" /\ k < Len(started)

\* row i was skipped in the dereplicate stage
DerepSkipped(i) == \E w \in 1..Len(warnings) :
                      warnings[w].stage = "dereplicate" /\ warnings[w].row = i

\* the dereplicated outputs of the rows 1..i not skipped, in the order of the rows
RECURSIVE PoolOfRows(_)
PoolOfRows(i) ==
    IF i = 0 THEN << >>
    ELSE IF DerepSkipped(i) THEN PoolOfRows(i - 1)
    ELSE Append(PoolOfRows(i - 1), metadata[i].sample_id)

\* the commands that need the sequence pool: clustering, the OTU table, the mapping
\* of relabel_and_cluster
NeedsPool(c) ==
    \/ c.stage \in {"cluster", "otu_table"}
    \/ c.stage = "relabel_and_cluster" /\ c.args[1] = "--usearch_global"

\* C18: once the dereplicate stage has been completed, all_samples_derep.fasta is the
\* concatenation, in metadata order, of the dereplicated outputs of the samples the
\* stage did not skip, with nothing an earlier run left in it; clustering, the OTU
\* table command and the mapping of relabel_and_cluster all read this file, and no
\* command writes it.
PoolIsCanonical ==
    DereplicateCompleted =>
        /\ pool = PoolOfRows(Len(metadata))
        /\ \A k \in 1..Len(cmds) :
              /\ NeedsPool(cmds[k]) => AllDerepFile \in cmds[k].reads
              /\ AllDerepFile \notin cmds[k].writes

\* a run into a directory with an old pool has skipped a sample in the dereplicate
\* stage, pooled another, and has issued the three kinds of commands that read the pool
PoolWitness ==
    /\ AllDerepFile \in outdir0
    /\ \E i \in 1..Len(metadata) : DerepSkipped(i)
    /\ pool # << >>
    /\ \E k \in 1..Len(cmds) : cmds[k].stage = "cluster"
    /\ \E k \in 1..Len(cmds) : cmds[k].stage = "otu_table"
    /\ \E k \in 1..Len(cmds) :
          cmds[k].stage = "relabel_and_cluster" /\ cmds[k].args[1] = "--usearch_global"

\* the files the commands issued so far name
FilesWritten == UNION {cmds[k].writes : k \in 1..Len(cmds)}
FilesRead == UNION {cmds[k].reads : k \in 1..Len(cmds)}

\* the stages that write f: through a command naming it as output, or, for the pool,
\* the dereplicate stage, which writes it itself
Writers(f) ==
    {cmds[k].stage : k \in {j \in 1..Len(cmds) : f \in cmds[j].writes}}
    \cup (IF f = AllDerepFile /\ "dereplicate" \in StagesStarted
         THEN {"dereplicate"} ELSE {})

\* the stages that have issued a command naming f as input
Readers(f) == {cmds[k].stage : k \in {j \in 1..Len(cmds) : f \in cmds[j].reads}}

Artifacts == FilesWritten \cup {AllDerepFile}

\* f is read only by the stage that wrote it or by the stage after that one
ReadByNextOnly(f) ==
    \A w \in Writers(f), r \in Readers(f) : r = w \/ r = StageAfter(w)

\* C19 as stated: every artifact has one writing stage and is read by no stage
\* further downstream than the stage after its writer.
ReadOnlyByNextStage ==
    \A f \in Artifacts : Cardinality(Writers(f)) <= 1 /\ ReadByNextOnly(f)

PoolReaders == {"cluster", "otu_table", "relabel_and_cluster"}
NochimReaders == {"otu_table", "relabel_and_cluster", "classify"}

\* C19 as amended: every artifact has one writing stage; all_samples_derep.fasta is
\* read by clustering, by the OTU table command and by relabel_and_cluster, the
\* chimera-free OTU file by the OTU table command, by relabel_and_cluster and by the
\* classification, and every other artifact only by its writer and the stage after it.
ArtifactReaders ==
    \A f \in Artifacts :
        /\ Cardinality(Writers(f)) <= 1
        /\ IF f = AllDerepFile THEN Readers(f) \subseteq PoolReaders
           ELSE IF f = NochimFile THEN Readers(f) \subseteq NochimReaders
           ELSE ReadByNextOnly(f)

\* the pool has been read three stages after the dereplicate stage and the
\* chimera-free OTU file by the classification
DownstreamReadWitness ==
    /\ "otu_table" \in Readers(AllDerepFile)
    /\ "relabel_and_cluster" \in Readers(AllDerepFile)
    /\ "classify" \in Readers(NochimFile)
    /\ Writers(NochimFile) = {"chimera"}

\* stage s has been completed: a later stage has been entered
StagePassed(s) == \E k \in 1..Len(started) : started[k] = s /\ k < Len(started)

\* a command of the length-range mode, of the fixed-length mode
RangeCmd(c) ==
    /\ c.stage = "quality"
    /\ c.reads = {MergedFile(metadata[c.row].sample_id)}
    /\ c.writes = QualityOut(metadata[c.row].sample_id)
FixedCmd(c) ==
    /\ c.stage = "quality"
    /\ TempFile(metadata[c.row].sample_id) \in c.reads \cup c.writes

\* the commands a stage has issued; the first word of each alternative's command
CmdsOf(s) == {k \in 1..Len(cmds) : cmds[k].stage = s}
Alternatives(s) ==
    IF s = "cluster" THEN {"--cluster_smallmem", "--unoise3"}
    ELSE {"--uchime_denovo", "--uchime_ref"}

\* C20: the quality filter issues the commands of the mode chosen at its prompt and
\* none of the other mode, and leaves out no sample whose input exists; clustering
\* and chimera detection issue one command each, of one of their two alternatives,
\* and the run does not pass either stage without it; the reference chimera command
\* carries a database path that exists.
OneAlternativePerStage ==
    /\ \A k \in CmdsOf("quality") :
          /\ "marker_type" \in DOMAIN config
          /\ config["marker_type"] = "1" => RangeCmd(cmds[k]) /\ ~FixedCmd(cmds[k])
          /\ config["marker_type"] = "2" => FixedCmd(cmds[k]) /\ ~RangeCmd(cmds[k])
    /\ StagePassed("quality") =>
          \A i \in 1..Len(metadata) :
              \/ Warned("quality", i)
              \/ \E k \in CmdsOf("quality") :
                    cmds[k].row = i /\ cmds[k].writes = QualityOut(metadata[i].sample_id)
    /\ \A s \in {"cluster", "chimera"} :
          /\ Cardinality(CmdsOf(s)) <= 1
          /\ StagePassed(s) => Cardinality(CmdsOf(s)) = 1
          /\ \A k \in CmdsOf(s) : cmds[k].args[1] \in Alternatives(s)
    /\ \A k \in CmdsOf("chimera") :
          cmds[k].args[1] = "--uchime_ref" => cmds[k].args[2] \in Databases

\* a run has filtered by fixed lengths, clustered by denoising and detected chimeras
\* against a reference database
AlternativesWitness ==
    /\ StagePassed("chimera")
    /\ \E k \in CmdsOf("quality") : FixedCmd(cmds[k])
    /\ \E k \in CmdsOf("cluster") : cmds[k].args[1] = "--unoise3"
    /\ \E k \in CmdsOf("chimera") : cmds[k].args[1] = "--uchime_ref"

\* the prompt of an extension that asks for a choice (plot_rarefaction_curve asks
\* nothing), and the files an extension writes
ChoiceKey == [relabel_and_cluster |-> "relabel_choice",
              filter_low_abundance_otus |-> "filter_choice"]
Selected(e) ==
    /\ e \in DOMAIN ChoiceKey
    /\ ChoiceKey[e] \in DOMAIN config
    /\ config[ChoiceKey[e]] = "1"
ExtensionOutputs(e) ==
    IF e = "relabel_and_cluster" THEN {TempOtus, Otus, Otutab}
    ELSE IF e = "plot_rarefaction_curve" THEN {RarefactionPdf}
    ELSE FilterOutputs \cup {ListT1}

\* the first statement of extension e has run
Entered(e) == e \in StagesStarted /\ pc # e

\* C21 as stated: an extension issues commands and writes outputs only when the
\* answer to its own choice selects it.
ExtensionsOnlyWhenChosen ==
    \A e \in ExtensionFunctions :
        (CmdsOf(e) # {} \/ (ExtensionOutputs(e) \cap files) \ outdir0 # {}) => Selected(e)

\* C21 as amended: the three extensions are entered in the order relabel, rarefaction,
\* filter after the OTU table build.  relabel_and_cluster always issues its relabel
\* command, and its choice selects only the second clustering command.
\* plot_rarefaction_curve asks nothing and always issues its awk command.
\* filter_low_abundance_otus issues no command and writes only when its own choice is
\* "1".  The commands of plot_rarefaction_curve are the same whatever was chosen.
ExtensionsAsCoded ==
    /\ \A e \in ExtensionFunctions \cap StagesStarted :
          /\ script = 2
          /\ StagePassed("otu_table")
          /\ \A k \in 1..Len(started) :
                started[k] = e => started[k - 1] = MainOrder[PositionOf(e) - 1]
    /\ Entered("relabel_and_cluster") =>
          \E k \in CmdsOf("relabel_and_cluster") : cmds[k].args[1] = "--fastx_filter"
    /\ \A k \in CmdsOf("relabel_and_cluster") :
          cmds[k].args[1] = "--cluster_size" => Selected("relabel_and_cluster")
    /\ Entered("plot_rarefaction_curve") =>
          \E k \in CmdsOf("plot_rarefaction_curve") : cmds[k].tool = "awk"
    /\ \A k \in CmdsOf("plot_rarefaction_curve") :
          /\ cmds[k].tool \in {"awk", "Rarefy_OTUtab.R"}
          /\ cmds[k].tool = "Rarefy_OTUtab.R" => cmds[k].args = <<"otutab.txt">>
    /\ entered.site # "plot_rarefaction_curve"
    /\ CmdsOf("filter_low_abundance_otus") = {}
    /\ ExtensionOutputs("filter_low_abundance_otus") \cap files # {} =>
          Selected("filter_low_abundance_otus")

\* a run in which the second clustering and the filter were declined: relabel and
\* rarefaction have issued their commands all the same, the filter has written nothing
ExtensionsWitness ==
    /\ StagePassed("filter_low_abundance_otus")
    /\ config["relabel_choice"] = "2"
    /\ config["filter_choice"] = "2"
    /\ CmdsOf("relabel_and_cluster") # {}
    /\ CmdsOf("plot_rarefaction_curve") # {}
    /\ ExtensionOutputs("filter_low_abundance_otus") \cap files = {}

\* C22: at most one classification command is issued, as the last command of the run
\* and after the OTU table build and the extensions; it is issued only on the answer
\* "yes" in any letter case, with a database path that exists and the cutoff 0.8, and
\* a run that ends after the answer "yes" has issued it.  On the answer "no" there is
\* no classification command, no 8-SINTAX directory and no classification output.
ClassifyOnlyOnYes ==
    /\ Cardinality(CmdsOf("classify")) <= 1
    /\ \A k \in CmdsOf("classify") :
          /\ k = Len(cmds)
          /\ "classify" \in DOMAIN config /\ Lower(config["classify"]) = "yes"
          /\ cmds[k].args[1] = "--sintax"
          /\ cmds[k].args[2] \in Databases
          /\ cmds[k].args[3] = "0.8"
          /\ StagePassed("otu_table")
          /\ script = 2 => \A e \in ExtensionFunctions : StagePassed(e)
    /\ "classify" \in DOMAIN config =>
          /\ (Lower(config["classify"]) = "yes" /\ pc = "completed") =>
                CmdsOf("classify") # {}
          /\ Lower(config["classify"]) = "no" =>
                /\ CmdsOf("classify") = {}
                /\ SintaxDir \notin files
                /\ SintaxOut \cap files = {}

\* the answer YES has led to the classification command and the run has ended
ClassifyWitness ==
    /\ pc = "completed"
    /\ "classify" \in DOMAIN config
    /\ config["classify"] = "YES"
    /\ \E k \in CmdsOf("classify") : cmds[k].rc = 0 /\ SintaxOut \subseteq files

\* C23: the thresholds the two prompts of the filter have accepted are a positive
\* min_count and a min_freq with 0 <= min_freq < 1.
ThresholdsInRange ==
    pc = "thresholds_read" =>
        /\ filter_min_count > 0
        /\ 0 <= filter_min_freq[1]
        /\ filter_min_freq[1] < filter_min_freq[2]

\* C24: every tool name is bound before the metadata is loaded or a command is
\* issued, and the executable of every command issued is a path of the binding.
ToolsFromBinding ==
    /\ (metadata # << >> \/ cmds # << >>) =>
          DOMAIN tools = {ToolNames[k] : k \in 1..Len(ToolNames)}
    /\ \A k \in 1..Len(cmds) : \E t \in DOMAIN tools : tools[t] = cmds[k].tool

\* a command of this run that succeeded has written f, or, after the choice of the
\* direct mapping, the temporary file that was renamed to f
RenamedFrom(f) == IF f = Otus THEN TempOtus ELSE TempOtutab
ProducedInRun(f) ==
    \E k \in 1..Len(cmds) :
        /\ cmds[k].rc = 0
        /\ \/ f \in cmds[k].writes
           \/ config["relabel_choice"] = "2" /\ RenamedFrom(f) \in cmds[k].writes

\* C25: once relabel_and_cluster has been completed, by either choice, 7-OTU holds
\* otus.fasta and otutab.txt, both produced by commands of this run, and no
\* otus.temp.fasta; the abundance filter is entered only after that.
RelabelOutputsFresh ==
    /\ StagePassed("relabel_and_cluster") =>
          /\ {Otus, Otutab} \subseteq files
          /\ TempOtus \notin files
          /\ ProducedInRun(Otus)
          /\ ProducedInRun(Otutab)
    /\ "filter_low_abundance_otus" \in StagesStarted => StagePassed("relabel_and_cluster")

\* the direct mapping has been completed in a directory that held the three files of
\* an earlier run, and the filter has been entered
RelabelWitness ==
    /\ TempOtus \in outdir0
    /\ "relabel_choice" \in DOMAIN config
    /\ config["relabel_choice"] = "2"
    /\ "filter_low_abundance_otus" \in StagesStarted

\* C26: no artifact is written by the commands of two different rows in the same
\* per-sample stage, and no sample's dereplicated output is in the pool twice.
NoSampleTwice ==
    /\ \A k1, k2 \in 1..Len(cmds) :
          (/\ cmds[k1].stage \in PerSampleStages
           /\ cmds[k1].stage = cmds[k2].stage
           /\ cmds[k1].row # cmds[k2].row) => cmds[k1].writes \cap cmds[k2].writes = {}
    /\ DereplicateCompleted =>
          \A i, j \in 1..Len(pool) : i # j => pool[i] # pool[j]

\* the way filter_low_abundance_otus was left, if it was
FilterExit(how) ==
    \E i \in 1..Len(exits) :
        exits[i].fn = "filter_low_abundance_otus" /\ exits[i].how = how
FilterDeclined ==
    "filter_choice" \in DOMAIN config /\ config["filter_choice"] = "2"

\* C27: when the user declines the filtering or otutab.txt cannot be read, the
\* function has returned, the four files of the filter are as they were when the
\* run started, and the run has gone on to the classification prompt.
FilterLeavesNoTrace ==
    (FilterDeclined \/ FilterExit("table_unreadable")) =>
        /\ (FilterOutputs \cup {ListT1}) \cap files = (FilterOutputs \cup {ListT1}) \cap outdir0
        /\ \E k \in 1..Len(started) : started[k] = "classify"
        /\ \E i \in 1..Len(exits) :
              /\ exits[i].fn = "filter_low_abundance_otus"
              /\ exits[i].how \in {"declined", "table_unreadable"}
              /\ exits[i].cwd = exits[i].entry
FilterNoTraceWitness ==
    /\ FilterExit("table_unreadable")
    /\ Otutab \in files
    /\ pc = "completed"

\* C28: once filter_low_abundance_otus has been left, by a return or by an
\* exception, the temporary list list.t1 does not exist.
TempListRemoved ==
    (\E i \in 1..Len(exits) : exits[i].fn = "filter_low_abundance_otus") => ListT1 \notin files

\* the script that is not running, and one round of its get_valid_input
OtherScript == 3 - script
GetValidInputOther(value, valid) ==
    IF Lower(value) = SentinelOf(OtherScript) THEN "exit"
    ELSE IF valid THEN "return"
    ELSE "retry"

\* C29: the two scripts react to a prompt input in the same way: what
\* get_valid_input did with the text it read is what the get_valid_input of the
\* other script does with the same text under the same validator.
ScriptsReactAlike ==
    (entered # NoInput /\ entered.site = "get_valid_input") =>
        LET value == StripText(entered.text)
        IN  entered.result = GetValidInputOther(value, Accepts(config["validator"], value))

\* the per-sample stages in their order, the sample ids of the table, and whether a
\* stage has issued a command for a sample, has dealt with all its rows
SampleStages == <<"demultiplex", "merge", "quality", "dereplicate">>
IdsOfTable == {metadata[i].sample_id : i \in 1..Len(metadata)}
RowsOf(id) == {i \in 1..Len(metadata) : metadata[i].sample_id = id}
SampleIssued(s, id) == \E i \in RowsOf(id) : Issued(s, i)
SampleSkipped(s, id) == RowsOf(id) \subseteq Processed(s) /\ ~SampleIssued(s, id)
InPool(id) == \E k \in 1..Len(pool) : pool[k] = id
SkipCarriesOn ==
    \A id \in IdsOfTable, a, b \in 1..Len(SampleStages) :
        (a < b /\ SampleSkipped(SampleStages[a], id)) =>
            /\ ~SampleIssued(SampleStages[b], id)
            /\ DereplicateCompleted => ~InPool(id)
NoStaleArtifacts ==
    \A s \in PerSampleStages, id \in SampleIds : Artifact(s, id) \cap outdir0 = {}

\* C30 as stated: whatever the output directory held when the run started, a sample
\* a per-sample stage issued no command for gets no command in any later
\* per-sample stage, and is not in the pool.
SkipPropagates == SkipCarriesOn

\* C30 as the code has it: the same, when the output directory held no per-sample
\* artifact when the run started.
SkipPropagatesFresh == NoStaleArtifacts => SkipCarriesOn
SkipPropagatesWitness ==
    /\ NoStaleArtifacts
    /\ DereplicateCompleted
    /\ NoCommandFailed
    /\ \E id \in IdsOfTable :
          /\ \A s \in PerSampleStages : SampleSkipped(s, id)
          /\ \A i \in RowsOf(id) : Warned("dereplicate", i)
    /\ Len(pool) >= 1

\* the row labels read back from the lines of otutab.filter.txt, and the labels of
\* the table read, each with the delimiter
IdsReadBack == {OtuId(TableLine(otu_df_filtered, o)) : o \in DOMAIN otu_df_filtered}
IdsOfInput == {Chars[o] \o <<";">> : o \in DOMAIN otutab}

\* C31: the filtered table has the row labels and the column labels of the table
\* read, in the same order; every row is kept, so the ids read back from the
\* filtered table are the ids of the table read; and every cell of the filtered
\* table is 0 or the count the table read has there.
FilterKeepsShape ==
    /\ OtusOf(otu_df_filtered) = OtusOf(otutab)
    /\ SamplesOf(otu_df_filtered) = SamplesOf(otutab)
    /\ \A o \in DOMAIN otutab : DOMAIN otu_df_filtered[o] = DOMAIN otutab[o]
    /\ IdsReadBack = IdsOfInput
    /\ \A c \in Cells(otutab) :
          /\ otu_df_filtered[c[1]][c[2]] \in {0, otutab[c[1]][c[2]]}
          /\ otu_df_filtered[c[1]][c[2]] <= otutab[c[1]][c[2]]
FilterKeepsShapeWitness ==
    /\ applied = Cells(otu_df)
    /\ pass = 1
    /\ \E o \in DOMAIN otutab :
          /\ \A x \in DOMAIN otutab[o] : otu_df_filtered[o][x] = 0
          /\ \E x \in DOMAIN otutab[o] : otutab[o][x] > 0
    /\ \E c \in Cells(otutab) : otu_df_filtered[c[1]][c[2]] > 0

\* the run is over: completed, failed at the handler, or left by sys.exit
Ended == pc \in {"completed", "failed", "exited"}

\* no rejected text is pending at a prompt, or the text last read is the sentinel
Answered == entered = NoInput \/ SentinelEntered

\* C32: when every prompt, again and again, gets an accepted input or the sentinel,
\* the run ends.
RunEnds == []<>Answered => <>Ended

\* C32 as the code has it: when every prompt, again and again, gets an accepted
\* input, or the sentinel where get_valid_input or check_tool reads it, the run ends.
RunEndsAsCoded == []<>(entered = NoInput \/ pc = "exited") => <>Ended

















Next ==
    \/ CheckInputs
    \/ CheckTool
    \/ CheckToolInput
    \/ LoadMetadata
    \/ Demultiplex
    \/ Merge
    \/ QualityPrompt
    \/ QualityLengthRange
    \/ QualityLengths
    \/ QualityRange
    \/ QualityFixed
    \/ Dereplicate
    \/ Cluster
    \/ Chimera
    \/ ChimeraDb
    \/ OtuTable
    \/ RelabelEnter
    \/ RelabelChoice
    \/ RelabelIdentity
    \/ plot_rarefaction_curve
    \/ FilterEnter
    \/ FilterChoice
    \/ FilterMinCount
    \/ FilterMinFreq
    \/ Classify
    \/ ClassifyDb
    \/ Handler

Spec == Init /\ [][Next]_vars

\* the run as a sequential program: it takes its next step whenever it has one (a
\* command that was started returns, a prompt that is shown is answered)
LiveSpec == Init /\ [][Next]_vars /\ WF_vars(Next)

\* the run up to the end of the per-sample stages (control stops at the clustering
\* prompt), over output directories with and without stale artifacts
SampleNext ==
    \/ CheckInputs
    \/ CheckTool
    \/ CheckToolInput
    \/ LoadMetadata
    \/ Demultiplex
    \/ Merge
    \/ QualityPrompt
    \/ QualityLengthRange
    \/ QualityLengths
    \/ QualityRange
    \/ QualityFixed
    \/ Dereplicate
    \/ Handler

SampleSpec == SampleInit /\ [][SampleNext]_vars

=============================================================================
